---- MODULE Spec2Model ----
(***************************************************************************)
(* wxt-module-layers: the layer resolution and merge pipeline.             *)
(*                                                                         *)
(* Strings are sequences of tokens.  A punctuation token is one character  *)
(* (".", "*", "#", "@", "-", "_"), a word token is an opaque run of word   *)
(* characters ("demo", "popup", "ts"), and "{name}" is the template        *)
(* placeholder.  Paths are sequences of such strings, one per segment.     *)
(* Two values are equal exactly when the JavaScript strings they stand     *)
(* for are equal.                                                          *)
(***************************************************************************)
EXTENDS Integers, Sequences, FiniteSets, TLC

\* ------------------------------------------------------------------------
\* optional values (JavaScript undefined) and the ?? operator
\* ------------------------------------------------------------------------

None == <<>>

Some(v) == <<v>>

Coalesce(a, b) == IF a # None THEN a ELSE b

\* ------------------------------------------------------------------------
\* strings
\* ------------------------------------------------------------------------

\* the element of a one-element set: Strict({F(x) : x \in {e}}) is F(e) with
\* e evaluated once
Strict(singleton) == CHOOSE r \in singleton : TRUE

Last(s) == s[Len(s)]

Front(s) == SubSeq(s, 1, Len(s) - 1)

Range(s) == {s[i] : i \in 1..Len(s)}

\* String.prototype.endsWith
endsWith(s, suffix) ==
  /\ Len(s) >= Len(suffix)
  /\ SubSeq(s, Len(s) - Len(suffix) + 1, Len(s)) = suffix

\* the positions of a token in a string, and the least of a set of positions
positionsOf(s, token) == {i \in 1..Len(s) : s[i] = token}

Min(positions) == CHOOSE i \in positions : \A j \in positions : i <= j

Max(positions) == CHOOSE i \in positions : \A j \in positions : j <= i

\* String.prototype.split(sep)[0] for a one-character separator
firstSplit(s, sep) ==
  IF positionsOf(s, sep) = {} THEN s ELSE SubSeq(s, 1, Min(positionsOf(s, sep)) - 1)

\* ------------------------------------------------------------------------
\* node:path.  A path is the sequence of the segments its string splits into
\* at "/": '/r/layers' is << <<>>, <<"r">>, <<"layers">> >>, 'bg/main.ts' is
\* << <<"bg">>, <<"main", ".", "ts">> >>.  No path of the model holds a '..'
\* segment.
\* ------------------------------------------------------------------------

DOT == "."

STAR == "*"

EmptySegment == <<>>

Abs(segs) == <<EmptySegment>> \o segs

isAbsolute(p) == Len(p) >= 2 /\ p[1] = EmptySegment

\* the segments that name something: not empty, not '.'
segments(p) == SelectSeq(p, LAMBDA s : s # EmptySegment /\ s # <<DOT>>)

\* path.normalize, without a trailing separator
normalize(p) == IF isAbsolute(p) THEN Abs(segments(p)) ELSE segments(p)

\* path.join(a, b): the strings joined with "/" and normalized
join(a, b) == normalize(a \o b)

\* path.resolve(from, to), from absolute
resolve(from, to) == IF isAbsolute(to) THEN normalize(to) ELSE normalize(from \o to)

\* path.basename(p)
basename(p) == IF segments(p) = <<>> THEN <<>> ELSE Last(segments(p))

\* the index of the dot that starts the extension of a file name, 0 when it
\* has none (a leading dot starts no extension)
extIndex(base) ==
  IF positionsOf(base, DOT) \ {1} = {} THEN 0 ELSE Max(positionsOf(base, DOT) \ {1})

\* path.extname(p)
extname(p) ==
  IF extIndex(basename(p)) = 0 THEN <<>>
  ELSE SubSeq(basename(p), extIndex(basename(p)), Len(basename(p)))

\* path.basename(p, path.extname(p))
basenameNoExt(p) ==
  IF extIndex(basename(p)) = 0 THEN basename(p)
  ELSE SubSeq(basename(p), 1, extIndex(basename(p)) - 1)

\* absSource.endsWith('/*')
endsWithWildcard(p) == Len(p) >= 2 /\ Last(p) = <<STAR>>

\* the positions of the segments that start with "*": the occurrences of '/*'
wildcardPositions(p) == {i \in 2..Len(p) : p[i] # <<>> /\ p[i][1] = STAR}

\* source.replace('/*', ''): the first '/*' is cut out, which joins what
\* follows the star to the segment before it
removeFirstWildcard(p) ==
  IF wildcardPositions(p) = {} THEN p
  ELSE LET i == Min(wildcardPositions(p))
       IN SubSeq(p, 1, i - 2) \o <<p[i - 1] \o Tail(p[i])>> \o SubSeq(p, i + 1, Len(p))

\* ------------------------------------------------------------------------
\* node:fs, over a directory tree
\* ------------------------------------------------------------------------

\* A node of the tree.  config is what c12's loadConfig finds for the file
\* layer.config.* of a directory (None: no such file, or it failed to load).
NoNode == [kind |-> "none", children |-> <<>>, config |-> None]

File == [kind |-> "file", children |-> <<>>, config |-> None]

Dir(children) == [kind |-> "dir", children |-> children, config |-> None]

LayerDir(children, config) ==
  [kind |-> "dir", children |-> children, config |-> Some(config)]

Entry(name, node) == [name |-> name, node |-> node]

child(node, name) ==
  IF \E i \in 1..Len(node.children) : node.children[i].name = name
  THEN node.children[CHOOSE i \in 1..Len(node.children) : node.children[i].name = name].node
  ELSE NoNode

RECURSIVE walk(_, _)
walk(node, segs) ==
  IF segs = <<>> THEN node
  ELSE IF node.kind # "dir" THEN NoNode
  ELSE Strict({walk(next, Tail(segs)) : next \in {child(node, Head(segs))}})

lookup(tree, path) == walk(tree, segments(path))

\* every query of the model is for an absolute path; the empty string names
\* nothing
existsSync(tree, path) == isAbsolute(path) /\ lookup(tree, path).kind # "none"

isDirectory(tree, path) == isAbsolute(path) /\ lookup(tree, path).kind = "dir"

\* the entry names of a directory, in enumeration order
readdirSync(tree, path) ==
  Strict({[i \in 1..Len(node.children) |-> node.children[i].name] :
            node \in {lookup(tree, path)}})

\* ------------------------------------------------------------------------
\* filesystem.ts: the entrypoint classifier
\* ------------------------------------------------------------------------

\* a one-word string, and the relative path of one such segment
S(word) == <<word>>

Seg(word) == <<S(word)>>

Ext(word) == <<DOT, word>>

StyleExtensions ==
  {Ext("css"), Ext("scss"), Ext("sass"), Ext("less"), Ext("styl"), Ext("stylus")}

determineEntrypointType_nameFirst(name, ext) ==
  IF name = S("background") THEN "background"
  ELSE IF endsWith(name, <<DOT, "content">>) \/ name = S("content") THEN "content-script"
  ELSE IF name = S("popup") THEN "popup"
  ELSE IF endsWith(name, <<DOT, "sidepanel">>) \/ name = S("sidepanel") THEN "sidepanel"
  ELSE IF ext \in StyleExtensions THEN "unlisted-style"
  ELSE IF ext = Ext("html") THEN "unlisted-page"
  ELSE "unlisted-script"

determineEntrypointType_noSuffix(name, ext) ==
  IF ext \in StyleExtensions THEN "unlisted-style"
  ELSE IF ext = Ext("html") THEN
    IF name = S("popup") THEN "popup"
    ELSE IF name = S("options") THEN "options"
    ELSE IF name = S("newtab") THEN "newtab"
    ELSE IF name = S("devtools") THEN "devtools"
    ELSE IF name = S("bookmarks") THEN "bookmarks"
    ELSE IF name = S("history") THEN "history"
    ELSE IF name = S("sidepanel") THEN "sidepanel"
    ELSE IF name = S("sandbox") THEN "sandbox"
    ELSE "unlisted-page"
  ELSE IF name = S("background") THEN "background"
  ELSE IF name = S("content") THEN "content-script"
  ELSE "unlisted-script"

determineEntrypointType(name, ext) ==
  IF ext \in StyleExtensions THEN "unlisted-style"
  ELSE IF ext = Ext("html") THEN
    IF name = S("popup") THEN "popup"
    ELSE IF name = S("options") THEN "options"
    ELSE IF name = S("newtab") THEN "newtab"
    ELSE IF name = S("devtools") THEN "devtools"
    ELSE IF name = S("bookmarks") THEN "bookmarks"
    ELSE IF name = S("history") THEN "history"
    ELSE IF endsWith(name, <<DOT, "sidepanel">>) \/ name = S("sidepanel")
      THEN "sidepanel"
    ELSE IF endsWith(name, <<DOT, "sandbox">>) \/ name = S("sandbox")
      THEN "sandbox"
    ELSE "unlisted-page"
  ELSE IF name = S("background") THEN "background"
  ELSE IF endsWith(name, <<DOT, "content">>) \/ name = S("content")
    THEN "content-script"
  ELSE "unlisted-script"

\* ------------------------------------------------------------------------
\* filesystem.ts: entrypoint resolution
\* ------------------------------------------------------------------------

EntrypointInfo(name, inputPath, type) ==
  [name |-> name, inputPath |-> inputPath, type |-> type]

IndexExtensions ==
  {"ts", "tsx", "js", "jsx", "html", "css", "scss", "sass", "less"}

isIndexFile_anyExtension(entry) == Len(entry) = 3 /\ entry[1] = "index" /\ entry[2] = DOT

\* /^(index)\.(ts|tsx|js|jsx|html|css|scss|sass|less)$/
isIndexFile(entry) ==
  Len(entry) = 3 /\ entry[1] = "index" /\ entry[2] = DOT /\ entry[3] \in IndexExtensions

findIndexFile_none(entries) == None

\* Array.prototype.find: the first element passing the test, None without one
findIndexFile(entries) ==
  LET hits == {i \in 1..Len(entries) : isIndexFile(entries[i])}
  IN IF hits = {} THEN None
     ELSE Some(entries[CHOOSE i \in hits : \A j \in hits : i <= j])

\* the body of the loop of scanLayerEntrypoints for one directory entry: the
\* entrypoints it pushes (none or one)
scanEntry(tree, entrypointsDir, entry) ==
  LET fullPath == join(entrypointsDir, <<entry>>)
      indexFile == findIndexFile(readdirSync(tree, fullPath))
      isDir == isDirectory(tree, fullPath)
      inputPath == IF isDir
                   THEN (IF indexFile # None THEN join(fullPath, <<indexFile[1]>>) ELSE <<>>)
                   ELSE join(entrypointsDir, <<entry>>)
      name == IF isDir
              THEN (IF indexFile # None THEN entry ELSE <<>>)
              ELSE basenameNoExt(<<entry>>)
  IN IF inputPath # <<>> /\ name # <<>>
     THEN <<EntrypointInfo(name, inputPath,
                           determineEntrypointType(name, extname(inputPath)))>>
     ELSE <<>>

RECURSIVE scanEntries(_, _, _)
scanEntries(tree, entrypointsDir, entries) ==
  IF entries = <<>> THEN <<>>
  ELSE scanEntry(tree, entrypointsDir, Head(entries))
       \o scanEntries(tree, entrypointsDir, Tail(entries))

scanLayerEntrypoints(tree, layerPath) ==
  LET entrypointsDir == join(layerPath, Seg("entrypoints"))
  IN IF ~existsSync(tree, entrypointsDir) THEN <<>>
     ELSE scanEntries(tree, entrypointsDir, readdirSync(tree, entrypointsDir))

\* an explicit entrypoints map: the entries of the object, in insertion order
MapEntry(key, path) == [key |-> key, path |-> path]

\* the name resolveEntrypoints gives the entrypoint of a key
entrypointNameOfKey_verbatim(key) == key

\* const [name] = key.split('.')
entrypointNameOfKey(key) == firstSplit(key, DOT)

\* what resolveEntrypoints hands to the classifier as the name of a key
classifiedPartOfKey_prefix(key) == firstSplit(key, DOT)

\* determineEntrypointType(key, ...): the whole key
classifiedPartOfKey(key) == key

resolveEntry_unchecked(tree, layerPath, e) ==
  LET inputPath == resolve(layerPath, e.path)
  IN IF e.path # <<>>
     THEN <<EntrypointInfo(entrypointNameOfKey(e.key), inputPath,
                           determineEntrypointType(classifiedPartOfKey(e.key),
                                                   extname(inputPath)))>>
     ELSE <<>>

\* the body of the loop of resolveEntrypoints for one [key, path] pair
resolveEntry(tree, layerPath, e) ==
  LET inputPath == resolve(layerPath, e.path)
  IN IF e.path # <<>> /\ existsSync(tree, inputPath)
     THEN <<EntrypointInfo(entrypointNameOfKey(e.key), inputPath,
                           determineEntrypointType(classifiedPartOfKey(e.key),
                                                   extname(inputPath)))>>
     ELSE <<>>

RECURSIVE resolveEntrypoints(_, _, _)
resolveEntrypoints(tree, config, layerPath) ==
  IF config = <<>> THEN <<>>
  ELSE resolveEntry(tree, layerPath, Head(config))
       \o resolveEntrypoints(tree, Tail(config), layerPath)

RECURSIVE resolveLayerAutoImportDirs(_, _, _)
resolveLayerAutoImportDirs(tree, layerPath, dirs) ==
  IF dirs = <<>> THEN <<>>
  ELSE LET dirPath == join(layerPath, Head(dirs))
       IN (IF existsSync(tree, dirPath) THEN <<dirPath>> ELSE <<>>)
          \o resolveLayerAutoImportDirs(tree, layerPath, Tail(dirs))

\* ------------------------------------------------------------------------
\* filesystem.ts: sources and layers
\* ------------------------------------------------------------------------

\* the options shared by module, source and layer level; every field optional
CommonOptions(layerAlias, autoImports, entrypoints, publicPrefix) ==
  [layerAlias |-> layerAlias, autoImports |-> autoImports,
   entrypoints |-> entrypoints, publicPrefix |-> publicPrefix]

NoOptions == CommonOptions(None, None, None, None)

\* one element of options.sources; a bare string is a source without options
SourceOptions(source, sourceAlias, common) ==
  [source |-> source, sourceAlias |-> sourceAlias, common |-> common]

SourceString(source) == SourceOptions(source, None, NoOptions)

\* the content of a layer.config file
LayerOptions(order, manifest, common) ==
  [order |-> order, manifest |-> manifest, common |-> common]

NoLayerConfig == LayerOptions(None, FALSE, NoOptions)

\* 'layers/*'
DefaultSources == <<SourceString(<<S("layers"), S(STAR)>>)>>

DefaultSourceAlias == <<"#", "{name}">>

\* the sources of the options with their paths resolved and their alias
\* template defaulted
resolveSources_noDefaultAlias(root, sources) ==
  LET inputs == IF sources # None THEN sources[1] ELSE DefaultSources
  IN [i \in 1..Len(inputs) |->
        SourceOptions(resolve(root, inputs[i].source), inputs[i].sourceAlias,
                      inputs[i].common)]

resolveSources(rootDir, sources) ==
  LET inputs == IF sources # None THEN sources[1] ELSE DefaultSources
  IN [i \in 1..Len(inputs) |->
        SourceOptions(resolve(rootDir, inputs[i].source),
                      Coalesce(inputs[i].sourceAlias, Some(DefaultSourceAlias)),
                      inputs[i].common)]

directoriesOf_unfiltered(tree, absDir, names) ==
  [i \in 1..Len(names) |-> join(absDir, <<names[i]>>)]

RECURSIVE directoriesOf(_, _, _)
directoriesOf(tree, absDir, names) ==
  IF names = <<>> THEN <<>>
  ELSE LET absPath == join(absDir, <<Head(names)>>)
       IN (IF isDirectory(tree, absPath) THEN <<absPath>> ELSE <<>>)
          \o directoriesOf(tree, absDir, Tail(names))

getLayerPaths(tree, sourceConfig) ==
  LET absSource == normalize(sourceConfig.source)
  IN IF endsWithWildcard(absSource)
     THEN LET absDir == Front(absSource)
          IN IF existsSync(tree, absDir)
             THEN directoriesOf(tree, absDir, readdirSync(tree, absDir))
             ELSE <<>>
     ELSE IF existsSync(tree, absSource) THEN <<absSource>> ELSE <<>>

loadLayerConfig(tree, layerPath) ==
  LET node == lookup(tree, layerPath)
  IN IF node.config # None THEN node.config[1] ELSE NoLayerConfig

\* ------------------------------------------------------------------------
\* resolveLayers(layerSources, options): the cascade of the options of the
\* module, of the source and of the layer's own config, per layer
\* ------------------------------------------------------------------------

ModuleOptions(sources, sourceAlias, logLevel, common) ==
  [sources |-> sources, sourceAlias |-> sourceAlias, logLevel |-> logLevel,
   common |-> common]

DefaultLayerAlias == <<"#", "{name}">>

DefaultAutoImports == <<>>

DefaultPublicPrefix == <<S("{name}")>>

\* the built-in defaults: layers are aliased '#<name>', have no auto-imports,
\* scan their entrypoints folder, and publish under '<name>/'
DefaultOptions ==
  CommonOptions(Some(DefaultLayerAlias), Some(DefaultAutoImports), None,
                Some(DefaultPublicPrefix))

cascade_moduleFirst(layerValue, sourceValue, moduleValue, defaultValue) ==
  Coalesce(moduleValue, Coalesce(sourceValue, Coalesce(layerValue, defaultValue)))

cascade(layerValue, sourceValue, moduleValue, defaultValue) ==
  Coalesce(layerValue, Coalesce(sourceValue, Coalesce(moduleValue, defaultValue)))

cascadeOptions(layerConfig, sourceConfig, options) ==
  [layerAlias |-> cascade(layerConfig.common.layerAlias, sourceConfig.common.layerAlias,
                          options.common.layerAlias, DefaultOptions.layerAlias),
   autoImports |-> cascade(layerConfig.common.autoImports, sourceConfig.common.autoImports,
                           options.common.autoImports, DefaultOptions.autoImports),
   entrypoints |-> cascade(layerConfig.common.entrypoints, sourceConfig.common.entrypoints,
                           options.common.entrypoints, DefaultOptions.entrypoints),
   publicPrefix |-> cascade(layerConfig.common.publicPrefix, sourceConfig.common.publicPrefix,
                            options.common.publicPrefix, DefaultOptions.publicPrefix),
   order |-> layerConfig.order,
   manifest |-> layerConfig.manifest]

ResolvedLayer(path, source, layerOptions) ==
  [path |-> path, source |-> source, options |-> layerOptions]

layersOfSource(tree, sourceConfig, options) ==
  LET paths == getLayerPaths(tree, sourceConfig)
  IN [i \in 1..Len(paths) |->
        ResolvedLayer(paths[i], sourceConfig.source,
                      cascadeOptions(loadLayerConfig(tree, paths[i]), sourceConfig, options))]

RECURSIVE resolveLayers(_, _, _)
resolveLayers(tree, layerSources, options) ==
  IF layerSources = <<>> THEN <<>>
  ELSE layersOfSource(tree, Head(layerSources), options)
       \o resolveLayers(tree, Tail(layerSources), options)

\* ------------------------------------------------------------------------
\* module.ts: state
\* ------------------------------------------------------------------------

VARIABLES
  fs,                 \* the directory tree of the project
  options,            \* the module options of wxt.config (key 'layers')
  pc,                 \* "init": before setup; then how setup returned
  alias,              \* wxt.config.alias: key -> path
  log,                \* the Logger calls made, in order
  layerSources,       \* setup: the resolved sources
  resolvedLayers,     \* setup: the resolved layers
  allEntrypoints,     \* setup: the collected layer entrypoints
  allAutoImportPaths, \* setup: the collected auto-import directories
  hooks,              \* the hooks registered on the host, per event
  hostEntrypoints,    \* the list the host passed to the last 'entrypoints:found'
  entrypointInfos,    \* that list after the hook ran
  events,             \* the number of events of each kind the host has fired
  imports,            \* wxt.config.imports
  assets,             \* the list of the last 'build:publicAssets' event
  notifications,      \* the payloads of the 'layers:resolved' calls
  plugins,            \* config.plugins after the last bundler config extension
  vm,                 \* the virtual background module at run time
  probe               \* the call under test of a function exercised alone

vars ==
  <<fs, options, pc, alias, log, layerSources, resolvedLayers, allEntrypoints,
    allAutoImportPaths, hooks, hostEntrypoints, entrypointInfos, events, imports,
    assets, notifications, plugins, vm, probe>>

rootDir == Abs(Seg("r"))

srcDir == rootDir

\* ------------------------------------------------------------------------
\* module.ts: aliases
\* ------------------------------------------------------------------------

PLACEHOLDER == "{name}"

\* template.replace(/\{name}/g, layerName)
RECURSIVE interpolateLayerName(_, _)
interpolateLayerName(template, layerName) ==
  IF template = <<>> THEN <<>>
  ELSE (IF Head(template) = PLACEHOLDER THEN layerName ELSE <<Head(template)>>)
       \o interpolateLayerName(Tail(template), layerName)

interpolatePath_literal(template, layerName) == template

\* interpolateLayerName on a template that is a path: a name holds no "/",
\* so the segments are interpolated one by one
interpolatePath(template, layerName) ==
  [i \in 1..Len(template) |-> interpolateLayerName(template[i], layerName)]

LogEntry(level, text, subject) == [level |-> level, text |-> text, subject |-> subject]

\* wxt.config.alias[key] is truthy
aliasDefined(table, key) == key \in DOMAIN table /\ table[key] # <<>>

\* the host state setAlias works on: the alias table and the log
HostState(table, entries) == [alias |-> table, log |-> entries]

\* makeLogger(wxt.logger, 'layers', options.logLevel ?? 'info'): the levels
\* of the logger, the least severe first, and the level shown by default
LogLevels == <<"debug", "info", "warn", "error">>

DefaultLogLevel == "info"

severity(level) == CHOOSE i \in 1..Len(LogLevels) : LogLevels[i] = level

\* an entry of a level is shown by a logger made with a logLevel
visibleAt(level, logLevel) ==
  severity(level) >= severity(Coalesce(logLevel, Some(DefaultLogLevel))[1])

setAlias_warning(host, path, aliasTemplate) ==
  IF aliasTemplate = None \/ aliasTemplate = Some(<<>>) THEN host
  ELSE LET key == interpolateLayerName(aliasTemplate[1], basename(path))
       IN IF aliasDefined(host.alias, key)
          THEN HostState(host.alias,
                         Append(host.log, LogEntry("warn", "alias already defined", key)))
          ELSE HostState((key :> path) @@ host.alias,
                         Append(host.log, LogEntry("debug", "alias", key)))

setAlias_overwrite(host, path, aliasTemplate) ==
  IF aliasTemplate = None \/ aliasTemplate = Some(<<>>) THEN host
  ELSE LET key == interpolateLayerName(aliasTemplate[1], basename(path))
       IN HostState((key :> path) @@ host.alias,
                    Append(host.log, LogEntry("debug", "alias", key)))

setAlias(host, path, aliasTemplate) ==
  IF aliasTemplate = None \/ aliasTemplate = Some(<<>>) THEN host
  ELSE LET key == interpolateLayerName(aliasTemplate[1], basename(path))
       IN IF aliasDefined(host.alias, key)
          THEN HostState(host.alias,
                         Append(host.log, LogEntry("debug", "alias already defined", key)))
          ELSE HostState((key :> path) @@ host.alias,
                         Append(host.log, LogEntry("debug", "alias", key)))

setSourceAliases_skipped(host, sources) == host

\* the forEach over the sources: one alias attempt per source
RECURSIVE setSourceAliases(_, _)
setSourceAliases(host, sources) ==
  IF sources = <<>> THEN host
  ELSE Strict({setSourceAliases(next, Tail(sources)) :
                 next \in {setAlias(host, removeFirstWildcard(Head(sources).source),
                                    Head(sources).sourceAlias)}})

\* ------------------------------------------------------------------------
\* module.ts: setup, the loop over the layers
\* ------------------------------------------------------------------------

DefaultOrder == 100

LayerEntrypointInfo(layerName, entrypointName, order, info) ==
  [layerName |-> layerName, entrypointName |-> entrypointName, order |-> order,
   info |-> info]

\* what the loop accumulates: the host's alias table and log, the collected
\* entrypoints and auto-import directories, and the hooks it registers
Collected(host, entrypoints, autoImportPaths, publicHooks, manifestHooks) ==
  [host |-> host, allEntrypoints |-> entrypoints, allAutoImportPaths |-> autoImportPaths,
   publicAssets |-> publicHooks, manifestGenerated |-> manifestHooks]

\* the entrypoints of one layer: the explicit map when the layer has one, the
\* scan of its entrypoints folder otherwise
layerEntrypointsOf_merged(tree, layer) ==
  IF layer.options.entrypoints # None
  THEN resolveEntrypoints(tree, layer.options.entrypoints[1], layer.path)
       \o scanLayerEntrypoints(tree, layer.path)
  ELSE scanLayerEntrypoints(tree, layer.path)

layerEntrypointsOf(tree, layer) ==
  IF layer.options.entrypoints # None
  THEN resolveEntrypoints(tree, layer.options.entrypoints[1], layer.path)
  ELSE scanLayerEntrypoints(tree, layer.path)

PublicHook(layerPath, publicPath, publicPrefix) ==
  [layerPath |-> layerPath, publicPath |-> publicPath, publicPrefix |-> publicPrefix]

\* the body of the loop for one layer
processLayer(tree, acc, layer) ==
  LET layerName == basename(layer.path)
      layerEntrypoints == layerEntrypointsOf(tree, layer)
      collected == [i \in 1..Len(layerEntrypoints) |->
                      LayerEntrypointInfo(layerName, layerEntrypoints[i].name,
                                          Coalesce(layer.options.order, Some(DefaultOrder))[1],
                                          layerEntrypoints[i])]
      autoImportPaths ==
        resolveLayerAutoImportDirs(tree, layer.path,
                                   Coalesce(layer.options.autoImports, Some(<<>>))[1])
      publicPrefix ==
        interpolatePath(Coalesce(layer.options.publicPrefix, Some(<<>>))[1], layerName)
      publicPath == join(layer.path, Seg("public"))
  IN Collected(setAlias(acc.host, layer.path, layer.options.layerAlias),
               acc.allEntrypoints \o collected,
               acc.allAutoImportPaths \o autoImportPaths,
               IF existsSync(tree, publicPath)
               THEN Append(acc.publicAssets, PublicHook(layer.path, publicPath, publicPrefix))
               ELSE acc.publicAssets,
               IF layer.options.manifest
               THEN Append(acc.manifestGenerated, layer.path)
               ELSE acc.manifestGenerated)

RECURSIVE processLayers(_, _, _)
processLayers(tree, acc, layers) ==
  IF layers = <<>> THEN acc
  ELSE Strict({processLayers(tree, next, Tail(layers)) :
                 next \in {processLayer(tree, acc, Head(layers))}})

\* ------------------------------------------------------------------------
\* module.ts: setup
\* ------------------------------------------------------------------------

NoHooks ==
  [ready |-> 0, publicAssets |-> <<>>, manifestGenerated |-> <<>>,
   entrypointsFound |-> 0, configResolved |-> 0,
   viteDevServerExtendConfig |-> <<>>, viteBuildExtendConfig |-> <<>>]

\* setup after the sources are resolved and their aliases are set
SetupLayers(sources, host, layers) ==
  IF Len(layers) = 0
  THEN /\ pc' = "no layers"
       /\ alias' = host.alias
       /\ log' = Append(host.log, LogEntry("warn", "No layers found!", <<>>))
       /\ layerSources' = sources
       /\ resolvedLayers' = layers
       /\ UNCHANGED <<allEntrypoints, allAutoImportPaths, hooks>>
  ELSE \E acc \in {processLayers(
                     fs,
                     Collected(HostState(host.alias,
                                         Append(host.log,
                                                LogEntry("info", "Scanning layer folders", <<>>))),
                               <<>>, <<>>, <<>>, <<>>),
                     layers)} :
         /\ pc' = "done"
         /\ alias' = acc.host.alias
         /\ log' = acc.host.log
         /\ layerSources' = sources
         /\ resolvedLayers' = layers
         /\ allEntrypoints' = acc.allEntrypoints
         /\ allAutoImportPaths' = acc.allAutoImportPaths
         /\ hooks' = [hooks EXCEPT !.ready = 1,
                                   !.publicAssets = acc.publicAssets,
                                   !.manifestGenerated = acc.manifestGenerated,
                                   !.entrypointsFound = 1,
                                   !.configResolved = 1]

Setup ==
  /\ pc = "init"
  /\ \E sources \in {resolveSources(rootDir, options.sources)} :
       IF Len(sources) = 0
       THEN /\ pc' = "no sources"
            /\ log' = Append(log, LogEntry("warn", "No layer sources defined!", <<>>))
            /\ layerSources' = sources
            /\ UNCHANGED <<alias, resolvedLayers, allEntrypoints, allAutoImportPaths, hooks>>
       ELSE \E host \in {setSourceAliases(HostState(alias, log), sources)},
               layers \in {resolveLayers(fs, sources, options)} :
              SetupLayers(sources, host, layers)
  /\ UNCHANGED <<fs, options, hostEntrypoints, entrypointInfos, events, imports, assets,
                 notifications, plugins, vm, probe>>

\* ------------------------------------------------------------------------
\* module.ts: the 'entrypoints:found' hook
\* ------------------------------------------------------------------------

MaxEvents == 2

MODULE_NAME == Seg("wxt-module-layers:background")

MODULE_ID == Seg("\\0wxt-module-layers:background")

VirtualBackground == EntrypointInfo(S("background"), MODULE_NAME, "background")

isBackground(info) == info.type = "background"

\* the collected entrypoints of kind background, in collection order
layerBackgroundsOf(collected) == SelectSeq(collected, LAMBDA e : isBackground(e.info))

\* the infos of the collected entrypoints of any other kind, in collection order
contributedOf_all(collected) == [i \in 1..Len(collected) |-> collected[i].info]

contributedOf_reversed(collected) ==
  LET others == SelectSeq(collected, LAMBDA e : ~isBackground(e.info))
  IN [i \in 1..Len(others) |-> others[Len(others) + 1 - i].info]

contributedOf(collected) ==
  LET others == SelectSeq(collected, LAMBDA e : ~isBackground(e.info))
  IN [i \in 1..Len(others) |-> others[i].info]

\* entrypointInfos.find(e => e.type === 'background') finds one
hasBackground(infos) == \E i \in 1..Len(infos) : isBackground(infos[i])

\* the comparator (a, b) => a.order - b.order is negative
comesBefore_descending(a, b) == a.order > b.order

comesBefore_orEqual(a, b) == a.order <= b.order

comesBefore(a, b) == a.order < b.order

\* x put in front of the first element it comes before, behind all others
RECURSIVE insertSorted(_, _)
insertSorted(sorted, x) ==
  IF sorted = <<>> THEN <<x>>
  ELSE IF comesBefore(x, Head(sorted)) THEN <<x>> \o sorted
  ELSE <<Head(sorted)>> \o insertSorted(Tail(sorted), x)

\* layerBackgrounds.sort((a, b) => a.order - b.order): Array.prototype.sort
\* is stable, so elements that compare equal keep their order
RECURSIVE sortByOrder(_)
sortByOrder(backgrounds) ==
  IF backgrounds = <<>> THEN <<>>
  ELSE Strict({insertSorted(sorted, Last(backgrounds)) :
                 sorted \in {sortByOrder(Front(backgrounds))}})

\* whether the hook adds the virtual background entrypoint
addsVirtualBackground_always(existingBackground, layerBackgrounds) ==
  Len(layerBackgrounds) > 0

addsVirtualBackground(existingBackground, layerBackgrounds) ==
  ~existingBackground /\ Len(layerBackgrounds) > 0

RECURSIVE orphanedLog(_)
orphanedLog(layerBackgrounds) ==
  IF layerBackgrounds = <<>> THEN <<>>
  ELSE <<LogEntry("info", "initialize layer background manually",
                  Head(layerBackgrounds).info.inputPath)>>
       \o orphanedLog(Tail(layerBackgrounds))

EntrypointsFound(infos) ==
  /\ hooks.entrypointsFound = 1
  /\ events.found < MaxEvents
  /\ LET layerBackgrounds == layerBackgroundsOf(allEntrypoints)
         pushed == infos \o contributedOf(allEntrypoints)
         existingBackground == hasBackground(pushed)
         virtual == addsVirtualBackground(existingBackground, layerBackgrounds)
         entrypoints == sortByOrder(layerBackgrounds)
     IN /\ entrypointInfos' = IF virtual THEN Append(pushed, VirtualBackground) ELSE pushed
        /\ log' = log
                  \o (IF existingBackground /\ Len(layerBackgrounds) > 0
                      THEN <<LogEntry("info", "Main background entrypoint found", <<>>)>>
                           \o orphanedLog(layerBackgrounds)
                      ELSE <<>>)
                  \o (IF virtual
                      THEN <<LogEntry("info", "Created virtual entrypoint", <<>>)>>
                      ELSE <<>>)
        /\ hooks' = IF virtual
                    THEN [hooks EXCEPT
                            !.viteDevServerExtendConfig = Append(@, entrypoints),
                            !.viteBuildExtendConfig = Append(@, entrypoints)]
                    ELSE hooks
  /\ hostEntrypoints' = infos
  /\ events' = [events EXCEPT !.found = @ + 1]
  /\ UNCHANGED <<fs, options, pc, alias, layerSources, resolvedLayers, allEntrypoints,
                 allAutoImportPaths, imports, assets, notifications, plugins, vm, probe>>

\* ------------------------------------------------------------------------
\* module.ts: the layer-backgrounds plugin and the virtual module it loads
\* ------------------------------------------------------------------------

Plugin(entrypoints) == [name |-> "wxt-module-layers-backgrounds", entrypoints |-> entrypoints]

\* one plugin pushed per registered config-extension hook
pluginsOf(registered) == [i \in 1..Len(registered) |-> Plugin(registered[i])]

ViteBuildExtendConfig ==
  /\ pc = "done"
  /\ plugins' = pluginsOf(hooks.viteBuildExtendConfig)
  /\ UNCHANGED <<fs, options, pc, alias, log, layerSources, resolvedLayers, allEntrypoints,
                 allAutoImportPaths, hooks, hostEntrypoints, entrypointInfos, events,
                 imports, assets, notifications, vm, probe>>

ViteDevServerExtendConfig ==
  /\ pc = "done"
  /\ plugins' = pluginsOf(hooks.viteDevServerExtendConfig)
  /\ UNCHANGED <<fs, options, pc, alias, log, layerSources, resolvedLayers, allEntrypoints,
                 allAutoImportPaths, hooks, hostEntrypoints, entrypointInfos, events,
                 imports, assets, notifications, vm, probe>>

NonWordTokens == {"-", ".", "#", "@", "*", " "}

\* layerName.replace(/\W+/g, '_'): every run of non-word characters becomes
\* one underscore
RECURSIVE replaceNonWord(_, _)
replaceNonWord(name, inRun) ==
  IF name = <<>> THEN <<>>
  ELSE IF Head(name) \in NonWordTokens
    THEN (IF inRun THEN <<>> ELSE <<"_">>) \o replaceNonWord(Tail(name), TRUE)
  ELSE <<Head(name)>> \o replaceNonWord(Tail(name), FALSE)

\* the identifier the generated module imports the handler of a layer under
handlerOf(entrypoint) == <<"init_">> \o replaceNonWord(entrypoint.layerName, FALSE)

Import(handler, inputPath) == [handler |-> handler, inputPath |-> inputPath]

\* load(MODULE_ID): the import statements and the handlers array of the
\* generated code, in the order of the plugin's entrypoints
importsOf(entrypoints) ==
  [i \in 1..Len(entrypoints) |->
     Import(handlerOf(entrypoints[i]), entrypoints[i].info.inputPath)]

\* the generated module is a module the engine accepts: no identifier is
\* imported twice
wellFormed(importList) ==
  \A i, j \in 1..Len(importList) :
    importList[i].handler = importList[j].handler => i = j

NoModule ==
  [status |-> "none", imports |-> <<>>, next |-> 0, prevResult |-> None,
   trace |-> <<>>, mainReturned |-> FALSE]

\* the bundler resolves the virtual module through the first plugin that
\* answers for its id
Load ==
  /\ plugins # <<>>
  /\ vm.status = "none"
  /\ LET importList == importsOf(plugins[1].entrypoints)
     IN vm' = [NoModule EXCEPT
                 !.status = IF wellFormed(importList) THEN "loaded" ELSE "syntax error",
                 !.imports = importList]
  /\ UNCHANGED <<fs, options, pc, alias, log, layerSources, resolvedLayers, allEntrypoints,
                 allAutoImportPaths, hooks, hostEntrypoints, entrypointInfos, events,
                 imports, assets, notifications, plugins, probe>>

\* main(): void runAll(); return true.  runAll runs up to its first await
\* inside the call; the steps of runAll are the actions Invoke and Settle.
Main ==
  /\ vm.status = "loaded"
  /\ vm' = [vm EXCEPT !.status = "running", !.next = 1, !.prevResult = None]
  /\ UNCHANGED <<fs, options, pc, alias, log, layerSources, resolvedLayers, allEntrypoints,
                 allAutoImportPaths, hooks, hostEntrypoints, entrypointInfos, events,
                 imports, assets, notifications, plugins, probe>>

TraceEvent(event, index, value) == [event |-> event, index |-> index, value |-> value]

HandlerKinds == {"sync", "async"}

HandlerOutcomes == {"value", "undefined", "failure"}

\* what a handler makes of its argument: undefined, or the accumulator it was
\* given with its own label appended
resultOf(outcome, handler, argument) ==
  IF outcome = "value"
  THEN Some(Append(IF argument = None THEN <<>> ELSE argument[1], handler))
  ELSE None

\* the argument runAll passes to the next handler
argumentOf_undefined(prevResult) == None

argumentOf(prevResult) == prevResult

\* runAll after the result of handler vm.next is in prevResult: the next
\* iteration of the loop, or the end of the function
advance(module, result, awaited) ==
  [module EXCEPT
     !.prevResult = result,
     !.next = @ + 1,
     !.status = IF module.next = Len(module.imports) THEN "finished" ELSE "running",
     !.mainReturned = @ \/ awaited \/ module.next = Len(module.imports),
     !.trace = Append(@, TraceEvent("done", module.next, result))]

\* const result = handler(prevResult), for the handler at vm.next
Invoke(kind, outcome) ==
  /\ vm.status = "running"
  /\ LET handler == vm.imports[vm.next].handler
         argument == argumentOf(vm.prevResult)
         called == [vm EXCEPT !.trace = Append(@, TraceEvent("call", vm.next, argument))]
     IN IF kind = "async"
        THEN \* result instanceof Promise: prevResult = await result
             vm' = [called EXCEPT !.status = "awaiting", !.mainReturned = TRUE]
        ELSE IF outcome = "failure"
        THEN \* the handler throws: runAll's promise rejects
             vm' = [called EXCEPT !.status = "rejected", !.mainReturned = TRUE,
                                  !.trace = Append(@, TraceEvent("throw", vm.next, None))]
        ELSE vm' = advance(called, resultOf(outcome, handler, argument), FALSE)
  /\ UNCHANGED <<fs, options, pc, alias, log, layerSources, resolvedLayers, allEntrypoints,
                 allAutoImportPaths, hooks, hostEntrypoints, entrypointInfos, events,
                 imports, assets, notifications, plugins, probe>>

Settle_continues(outcome) ==
  /\ vm.status = "awaiting"
  /\ vm' = advance(IF outcome = "failure"
                   THEN [vm EXCEPT !.trace = Append(@, TraceEvent("throw", vm.next, None))]
                   ELSE vm,
                   resultOf(outcome, vm.imports[vm.next].handler, Last(vm.trace).value),
                   TRUE)
  /\ UNCHANGED <<fs, options, pc, alias, log, layerSources, resolvedLayers, allEntrypoints,
                 allAutoImportPaths, hooks, hostEntrypoints, entrypointInfos, events,
                 imports, assets, notifications, plugins, probe>>

\* the promise of the handler at vm.next settles
Settle(outcome) ==
  /\ vm.status = "awaiting"
  /\ LET handler == vm.imports[vm.next].handler
         argument == Last(vm.trace).value
     IN IF outcome = "failure"
        THEN vm' = [vm EXCEPT !.status = "rejected",
                              !.trace = Append(@, TraceEvent("throw", vm.next, None))]
        ELSE vm' = advance(vm, resultOf(outcome, handler, argument), TRUE)
  /\ UNCHANGED <<fs, options, pc, alias, log, layerSources, resolvedLayers, allEntrypoints,
                 allAutoImportPaths, hooks, hostEntrypoints, entrypointInfos, events,
                 imports, assets, notifications, plugins, probe>>

\* ------------------------------------------------------------------------
\* module.ts: the 'config:resolved', 'ready' and 'build:publicAssets' hooks
\* ------------------------------------------------------------------------

RECURSIVE commonPrefixLen(_, _)
commonPrefixLen(a, b) ==
  IF a = <<>> \/ b = <<>> \/ Head(a) # Head(b) THEN 0
  ELSE 1 + commonPrefixLen(Tail(a), Tail(b))

\* path.relative(from, to), both absolute
relative(from, to) ==
  LET f == segments(from)
      t == segments(to)
      n == commonPrefixLen(f, t)
  IN [i \in 1..(Len(f) - n) |-> <<DOT, DOT>>] \o SubSeq(t, n + 1, Len(t))

\* the loop over allAutoImportPaths: a path not in dirs is pushed, relative
\* to srcDir
RECURSIVE addImportDirs(_, _)
addImportDirs(dirs, importPaths) ==
  IF importPaths = <<>> THEN dirs
  ELSE Strict({addImportDirs(next, Tail(importPaths)) :
                 next \in {IF Head(importPaths) \notin Range(dirs)
                           THEN Append(dirs, relative(srcDir, Head(importPaths)))
                           ELSE dirs}})

ConfigResolved ==
  /\ hooks.configResolved = 1
  /\ events.configResolved < MaxEvents
  /\ events' = [events EXCEPT !.configResolved = @ + 1]
  /\ IF Len(allAutoImportPaths) > 0
     THEN IF imports.disabled
          THEN /\ log' = Append(log, LogEntry("warn", "Auto-imports are disabled", <<>>))
               /\ UNCHANGED imports
          ELSE /\ imports' = [imports EXCEPT !.dirs = addImportDirs(@, allAutoImportPaths)]
               /\ UNCHANGED log
     ELSE UNCHANGED <<imports, log>>
  /\ UNCHANGED <<fs, options, pc, alias, layerSources, resolvedLayers, allEntrypoints,
                 allAutoImportPaths, hooks, hostEntrypoints, entrypointInfos, assets,
                 notifications, plugins, vm, probe>>

layerPathsOf_sources(layers) == [i \in 1..Len(layers) |-> layers[i].source]

\* resolvedLayers.map(l => l.path)
layerPathsOf(layers) == [i \in 1..Len(layers) |-> layers[i].path]

\* the 'ready' hook: callHook('layers:resolved', resolvedLayers.map(l => l.path))
Ready ==
  /\ hooks.ready = 1
  /\ events.ready < MaxEvents
  /\ events' = [events EXCEPT !.ready = @ + 1]
  /\ notifications' = Append(notifications, layerPathsOf(resolvedLayers))
  /\ UNCHANGED <<fs, options, pc, alias, log, layerSources, resolvedLayers, allEntrypoints,
                 allAutoImportPaths, hooks, hostEntrypoints, entrypointInfos, imports,
                 assets, plugins, vm, probe>>

\* globSync('**/*', { cwd, nodir: true }): the files under a directory, as
\* paths relative to it
RECURSIVE filesUnder(_, _)
filesUnder(node, prefix) ==
  IF node.kind # "dir" \/ node.children = <<>> THEN <<>>
  ELSE LET first == node.children[1]
           here == join(prefix, <<first.name>>)
           rest == [node EXCEPT !.children = Tail(@)]
       IN (IF first.node.kind = "file" THEN <<here>> ELSE filesUnder(first.node, here))
          \o filesUnder(rest, prefix)

globSync(tree, cwd) == filesUnder(lookup(tree, cwd), <<>>)

Asset(absoluteSrc, relativeDest) == [absoluteSrc |-> absoluteSrc, relativeDest |-> relativeDest]

publicAssetsOf_flat(tree, hook) ==
  LET publicFiles == globSync(tree, hook.publicPath)
  IN [i \in 1..Len(publicFiles) |->
        Asset(join(hook.publicPath, publicFiles[i]),
              join(hook.publicPrefix, <<Last(publicFiles[i])>>))]

\* one 'build:publicAssets' hook: an asset per file of the public folder
publicAssetsOf(tree, hook) ==
  LET publicFiles == globSync(tree, hook.publicPath)
  IN [i \in 1..Len(publicFiles) |->
        Asset(join(hook.publicPath, publicFiles[i]), join(hook.publicPrefix, publicFiles[i]))]

RECURSIVE runPublicHooks(_, _, _)
runPublicHooks(tree, list, registered) ==
  IF registered = <<>> THEN list
  ELSE Strict({runPublicHooks(tree, next, Tail(registered)) :
                 next \in {list \o publicAssetsOf(tree, Head(registered))}})

BuildPublicAssets ==
  /\ pc = "done"
  /\ events.publicAssets < MaxEvents
  /\ events' = [events EXCEPT !.publicAssets = @ + 1]
  /\ assets' = runPublicHooks(fs, <<>>, hooks.publicAssets)
  /\ UNCHANGED <<fs, options, pc, alias, log, layerSources, resolvedLayers, allEntrypoints,
                 allAutoImportPaths, hooks, hostEntrypoints, entrypointInfos, imports,
                 notifications, plugins, vm, probe>>

\* ------------------------------------------------------------------------
\* the projects the pass is run on
\* ------------------------------------------------------------------------

FileName(name, ext) == <<name, DOT, ext>>

QualifiedFileName(label, qualifier, ext) == <<label, DOT, qualifier, DOT, ext>>

\* the relative path dir/file
RelPath(dir, file) == <<dir, file>>

Pattern(dir, last) == <<S(dir), S(last)>>

\* entrypoints/background.ts and entrypoints/popup.html
DemoEntrypoints ==
  Entry(S("entrypoints"),
        Dir(<<Entry(FileName("background", "ts"), File),
              Entry(FileName("popup", "html"), File)>>))

BackgroundOnly ==
  Entry(S("entrypoints"), Dir(<<Entry(FileName("background", "ts"), File)>>))

\* files, a folder with an index file, a folder without one, a stylesheet
MixedEntrypoints ==
  Entry(S("entrypoints"),
        Dir(<<Entry(S("sidepanel"), Dir(<<Entry(FileName("main", "ts"), File),
                                         Entry(FileName("index", "html"), File)>>)),
              Entry(S("drafts"), Dir(<<Entry(FileName("notes", "md"), File)>>)),
              Entry(QualifiedFileName("x", "content", "ts"), File),
              Entry(FileName("styles", "scss"), File),
              Entry(FileName("popup", "html"), File)>>))

PublicFolder ==
  Entry(S("public"),
        Dir(<<Entry(FileName("icon", "png"), File),
              Entry(S("img"), Dir(<<Entry(FileName("logo", "svg"), File)>>))>>))

UtilsFolder == Entry(S("utils"), Dir(<<Entry(FileName("format", "ts"), File)>>))

\* the files an explicit entrypoints map points at
ExplicitFiles ==
  <<Entry(S("bg"), Dir(<<Entry(FileName("main", "ts"), File)>>)),
    Entry(S("content"), Dir(<<Entry(FileName("linkedin", "ts"), File),
                              Entry(FileName("twitter", "ts"), File)>>)),
    Entry(S("panel"), Dir(<<Entry(FileName("index", "html"), File)>>))>>

ExplicitMap ==
  <<MapEntry(S("background"), RelPath(S("bg"), FileName("main", "ts"))),
    MapEntry(<<"linkedin", DOT, "content">>, RelPath(S("content"), FileName("linkedin", "ts"))),
    MapEntry(<<"twitter", DOT, "content">>, RelPath(S("content"), FileName("twitter", "ts"))),
    MapEntry(S("sidepanel"), RelPath(S("panel"), FileName("index", "html"))),
    MapEntry(S("missing"), RelPath(S("content"), FileName("nope", "ts"))),
    MapEntry(S("unset"), <<>>)>>

WithOrder(n) == LayerOptions(Some(n), FALSE, NoOptions)

\* the candidate contents of the folder layers/
LayersFolders ==
  { \* the demo project: one layer, two entrypoints, no config
    <<Entry(S("demo"), Dir(<<DemoEntrypoints>>))>>,
    \* three layer backgrounds, orders 10, 5, 20, two of them with a popup
    <<Entry(S("alpha"), LayerDir(<<DemoEntrypoints>>, WithOrder(10))),
      Entry(S("beta"), LayerDir(<<DemoEntrypoints>>, WithOrder(5))),
      Entry(S("gamma"), LayerDir(<<BackgroundOnly, PublicFolder>>, WithOrder(20)))>>,
    \* equal orders, a layer without an order before a layer of order 70,
    \* names that differ in punctuation only, and a plain file next to the
    \* layers
    <<Entry(<<"a", "-", "b">>, LayerDir(<<BackgroundOnly>>, WithOrder(7))),
      Entry(FileName("README", "md"), File),
      Entry(<<"a", "_", "c">>, LayerDir(<<BackgroundOnly, UtilsFolder>>, WithOrder(7))),
      Entry(S("zeta"), Dir(<<BackgroundOnly>>)),
      Entry(S("late"), LayerDir(<<BackgroundOnly>>, WithOrder(70)))>>,
    \* an explicit map next to an entrypoints folder, and a scanned layer
    <<Entry(S("feature"),
            LayerDir(<<DemoEntrypoints, PublicFolder, UtilsFolder>> \o ExplicitFiles,
                     LayerOptions(Some(20), TRUE,
                                  CommonOptions(Some(<<"@", "tracking">>), Some(<<Seg("utils"), Seg("stores")>>),
                                                Some(ExplicitMap), Some(Seg("tracking")))))),
      Entry(S("auth"), Dir(<<MixedEntrypoints, PublicFolder, UtilsFolder>>))>>,
    \* a layer named like its source, an empty layer, and a layer with a
    \* background named like a layer of another source
    <<Entry(S("layers"), Dir(<<MixedEntrypoints, PublicFolder>>)),
      Entry(S("empty"), Dir(<<>>)),
      Entry(S("shop"), Dir(<<BackgroundOnly, PublicFolder>>))>>,
    \* no layer at all
    <<>> }

\* the project: layers/ with one of the contents above, features/ with one
\* layer, the single layer modules/foo, and the host's src folder
Project(layersFolder) ==
  Dir(<<Entry(S("layers"), Dir(layersFolder)),
        Entry(S("features"),
              Dir(<<Entry(S("shop"), LayerDir(<<DemoEntrypoints, PublicFolder>>, WithOrder(1)))>>)),
        Entry(S("modules"), Dir(<<Entry(S("foo"), Dir(<<MixedEntrypoints, UtilsFolder>>))>>)),
        Entry(S("src"), Dir(<<>>))>>)

Projects == {Dir(<<Entry(S("r"), Project(f))>>) : f \in LayersFolders}

\* the candidate values of options.sources
SourcesOptions ==
  { None,
    Some(<<>>),
    Some(<<SourceString(Pattern("layers", STAR))>>),
    Some(<<SourceString(Pattern("layers", STAR)),
           SourceOptions(Pattern("features", STAR), Some(<<"@", "shared">>),
                         CommonOptions(Some(<<>>), Some(<<Seg("utils")>>), None, Some(<<>>)))>>),
    Some(<<SourceString(Pattern("modules", "foo")),
           SourceString(Pattern("missing", STAR)),
           SourceOptions(Pattern("layers", STAR), Some(<<>>), NoOptions)>>) }

\* the candidate module-level options
CommonModuleOptions ==
  { NoOptions,
    CommonOptions(Some(<<"@", PLACEHOLDER>>), Some(<<Seg("utils")>>), None,
                  Some(<<S("layers"), S(PLACEHOLDER)>>)) }

\* the alias tables the host may come with
HostAliases ==
  { <<>>,
    (<<"#", "demo">> :> Abs(<<S("r"), S("src"), S("demo")>>))
      @@ (S("@") :> Abs(<<S("r"), S("src")>>)) }

HostEntry(file) ==
  EntrypointInfo(basenameNoExt(<<file>>),
                 join(join(srcDir, Seg("entrypoints")), <<file>>),
                 determineEntrypointType(basenameNoExt(<<file>>), extname(<<file>>)))

\* the entrypoint lists the host may pass to 'entrypoints:found'
HostEntrypointLists ==
  { <<>>,
    <<HostEntry(FileName("options", "html"))>>,
    <<HostEntry(FileName("background", "ts")), HostEntry(FileName("popup", "html"))>> }

NoEvents == [found |-> 0, ready |-> 0, configResolved |-> 0, publicAssets |-> 0]

NoProbe == [op |-> "none"]

\* the state of the host before setup runs
Fresh ==
  /\ pc = "init"
  /\ log = <<>>
  /\ layerSources = <<>>
  /\ resolvedLayers = <<>>
  /\ allEntrypoints = <<>>
  /\ allAutoImportPaths = <<>>
  /\ hooks = NoHooks
  /\ hostEntrypoints = <<>>
  /\ entrypointInfos = <<>>
  /\ events = NoEvents
  /\ assets = <<>>
  /\ notifications = <<>>
  /\ plugins = <<>>
  /\ vm = NoModule
  /\ probe = NoProbe

\* the candidate values of the module's sourceAlias, tried on two bare
\* sources
SourceAliasOptions == {None, Some(<<"@", PLACEHOLDER>>), Some(<<>>)}

BareSources ==
  Some(<<SourceString(Pattern("layers", STAR)), SourceString(Pattern("features", STAR))>>)

Init ==
  /\ fs \in Projects
  /\ options \in {ModuleOptions(src, None, None, common) :
                    src \in SourcesOptions, common \in CommonModuleOptions}
                  \cup {ModuleOptions(BareSources, sourceAlias, None, NoOptions) :
                          sourceAlias \in SourceAliasOptions}
  /\ alias \in HostAliases
  /\ imports \in {[disabled |-> FALSE, dirs |-> <<>>]}
  /\ Fresh

\* the build: setup, then the host's events in any order
Next ==
  \/ Setup
  \/ \E infos \in HostEntrypointLists : EntrypointsFound(infos)
  \/ ConfigResolved
  \/ Ready
  \/ BuildPublicAssets

Spec == Init /\ [][Next]_vars

\* the virtual background: setup, 'entrypoints:found', the bundler's config
\* extension, and the generated module at run time
NextBackground ==
  \/ Setup
  \/ \E infos \in HostEntrypointLists : EntrypointsFound(infos)
  \/ ViteBuildExtendConfig
  \/ ViteDevServerExtendConfig
  \/ Load
  \/ Main
  \/ \E kind \in HandlerKinds, outcome \in HandlerOutcomes : Invoke(kind, outcome)
  \/ \E outcome \in HandlerOutcomes : Settle(outcome)

SpecBackground == Init /\ [][NextBackground]_vars

\* ------------------------------------------------------------------------
\* determineEntrypointType, called alone on any name and extension
\* ------------------------------------------------------------------------

Words ==
  {"popup", "options", "newtab", "devtools", "bookmarks", "history", "sidepanel",
   "sandbox", "background", "content", "x", "styles"}

\* plain names, names with one qualifier, hidden names, names with two dots
ClassifyNames ==
  {S(w) : w \in Words}
    \cup {<<a, DOT, b>> : a, b \in Words}
    \cup {<<DOT, w>> : w \in Words}
    \cup {<<"x", DOT, a, DOT, b>> : a, b \in {"content", "sidepanel", "sandbox", "x"}}

ClassifyExtensions ==
  StyleExtensions \cup {Ext("html"), Ext("ts"), Ext("tsx"), Ext("js"), Ext("vue"), <<>>}

BareHost ==
  /\ fs = Dir(<<>>)
  /\ options = ModuleOptions(None, None, None, NoOptions)
  /\ imports = [disabled |-> FALSE, dirs |-> <<>>]
  /\ Fresh

InitClassify ==
  /\ alias = <<>>
  /\ BareHost

Classify(name, ext) ==
  /\ probe.op = "none"
  /\ probe' = [op |-> "determineEntrypointType", name |-> name, ext |-> ext,
               type |-> determineEntrypointType(name, ext)]
  /\ UNCHANGED <<fs, options, pc, alias, log, layerSources, resolvedLayers, allEntrypoints,
                 allAutoImportPaths, hooks, hostEntrypoints, entrypointInfos, events,
                 imports, assets, notifications, plugins, vm>>

NextClassify == \E name \in ClassifyNames, ext \in ClassifyExtensions : Classify(name, ext)

SpecClassify == InitClassify /\ [][NextClassify]_vars

\* ------------------------------------------------------------------------
\* setAlias, called alone in any sequence
\* ------------------------------------------------------------------------

MaxAliasCalls == 3

AliasPaths ==
  { Abs(<<S("r"), S("layers")>>),
    Abs(<<S("r"), S("layers"), S("demo")>>),
    Abs(<<S("r"), S("features"), S("demo")>>),
    Abs(<<S("r"), S("features"), S("shop")>>) }

AliasTemplates ==
  { None, Some(<<>>), Some(<<"#", PLACEHOLDER>>), Some(<<"#", "demo">>), Some(S("@")) }

InitAlias ==
  /\ alias \in HostAliases
  /\ BareHost

\* one call setAlias(path, template); a call without a template returns at
\* once and logs nothing
SetAliasCall(path, template) ==
  /\ Len(log) < MaxAliasCalls
  /\ \E host \in {setAlias(HostState(alias, log), path, template)} :
       /\ alias' = host.alias
       /\ log' = host.log
  /\ probe' = [op |-> "setAlias", path |-> path, template |-> template]
  /\ UNCHANGED <<fs, options, pc, layerSources, resolvedLayers, allEntrypoints,
                 allAutoImportPaths, hooks, hostEntrypoints, entrypointInfos, events,
                 imports, assets, notifications, plugins, vm>>

NextAlias == \E path \in AliasPaths, template \in AliasTemplates : SetAliasCall(path, template)

SpecAlias == InitAlias /\ [][NextAlias]_vars

\* ------------------------------------------------------------------------
\* C3
\* ------------------------------------------------------------------------

\* C3: over any sequence of setAlias calls, a key of the alias table (one the
\* host came with included) keeps the path it has, and a key a call adds
\* maps to the path of that call: every key maps to its first registration,
\* and a later attempt under the same key leaves the table unchanged.
C3_FirstRegistrationWins ==
  [][/\ \A key \in DOMAIN alias : key \in DOMAIN alias' /\ alias'[key] = alias[key]
     /\ \A key \in DOMAIN alias' \ DOMAIN alias : alias'[key] = probe'.path]_vars

\* a call under a key that is taken, with another path, was dropped
C3_Witness ==
  /\ probe.op = "setAlias"
  /\ Len(log) >= 2
  /\ Last(log).text = "alias already defined"
  /\ Last(log).subject \in DOMAIN alias
  /\ alias[Last(log).subject] # probe.path

\* ------------------------------------------------------------------------
\* C4
\* ------------------------------------------------------------------------

ListedPages == {"popup", "options", "newtab", "devtools", "bookmarks", "history"}

\* the name is the qualifier or ends with '.' and the qualifier
qualifiedAs(name, qualifier) ==
  \/ name = <<qualifier>>
  \/ Len(name) >= 2 /\ name[Len(name)] = qualifier /\ name[Len(name) - 1] = DOT

\* the reference classification, as a table of disjoint cases
ReferenceType(name, ext) ==
  CASE ext \in StyleExtensions -> "unlisted-style"
    [] ext = <<DOT, "html">> /\ Len(name) = 1 /\ name[1] \in ListedPages -> name[1]
    [] ext = <<DOT, "html">> /\ qualifiedAs(name, "sidepanel") -> "sidepanel"
    [] ext = <<DOT, "html">> /\ qualifiedAs(name, "sandbox") -> "sandbox"
    [] /\ ext = <<DOT, "html">>
       /\ ~(Len(name) = 1 /\ name[1] \in ListedPages)
       /\ ~qualifiedAs(name, "sidepanel")
       /\ ~qualifiedAs(name, "sandbox") -> "unlisted-page"
    [] ext \notin StyleExtensions /\ ext # <<DOT, "html">> /\ name = <<"background">>
         -> "background"
    [] ext \notin StyleExtensions /\ ext # <<DOT, "html">> /\ qualifiedAs(name, "content")
         -> "content-script"
    [] /\ ext \notin StyleExtensions
       /\ ext # <<DOT, "html">>
       /\ name # <<"background">>
       /\ ~qualifiedAs(name, "content") -> "unlisted-script"

CommonFields == {"layerAlias", "autoImports", "entrypoints", "publicPrefix"}

\* the values one level sets, all marked with the level's tag
LevelValues(tag) ==
  CommonOptions(Some(<<tag, "-", PLACEHOLDER>>),
                Some(<<Seg(tag)>>),
                Some(<<MapEntry(S(tag), RelPath(S("bg"), FileName("main", "ts")))>>),
                Some(Seg(tag)))

\* every way a level sets some of the options and leaves the others unset
LevelChoices(tag) ==
  {[f \in CommonFields |-> IF f \in set THEN LevelValues(tag)[f] ELSE None] :
     set \in SUBSET CommonFields}

\* layers/one with a config as chosen, layers/two with every option set
CascadeProject(layerCommon) ==
  Dir(<<Entry(S("r"),
              Dir(<<Entry(S("layers"),
                          Dir(<<Entry(S("one"),
                                      LayerDir(<<DemoEntrypoints>> \o ExplicitFiles,
                                               LayerOptions(None, FALSE, layerCommon))),
                                Entry(S("two"),
                                      LayerDir(<<DemoEntrypoints>> \o ExplicitFiles,
                                               LayerOptions(None, FALSE,
                                                            LevelValues("other"))))>>))>>))>>)

InitCascade ==
  /\ fs \in {CascadeProject(common) : common \in LevelChoices("layer")}
  /\ options \in {ModuleOptions(Some(<<SourceOptions(Pattern("layers", STAR), None, atSource)>>),
                                None, None, atModule) :
                    atSource \in LevelChoices("source"), atModule \in LevelChoices("module")}
  /\ alias = <<>>
  /\ imports = [disabled |-> FALSE, dirs |-> <<>>]
  /\ Fresh

NextCascade == Setup

SpecCascade == InitCascade /\ [][NextCascade]_vars

\* ------------------------------------------------------------------------
\* C1
\* ------------------------------------------------------------------------

namesOf(infos) == {infos[i].name : i \in 1..Len(infos)}

countNamed(infos, name) == Cardinality({i \in 1..Len(infos) : infos[i].name = name})

\* the collected layer entrypoints of a name that are no background
collectedNamed(name) ==
  {i \in 1..Len(allEntrypoints) :
     allEntrypoints[i].info.name = name /\ allEntrypoints[i].info.type # "background"}

\* the virtual background entries of a name in the list handed to the host
virtualNamed(name) ==
  {i \in 1..Len(entrypointInfos) :
     entrypointInfos[i] = VirtualBackground /\ entrypointInfos[i].name = name}

\* C1 (as written): the entrypoint list handed to the host after
\* 'entrypoints:found' holds no two entries with equal names.
C1_NoTwoEntriesWithEqualNames ==
  events.found > 0 =>
    \A i, j \in 1..Len(entrypointInfos) :
      entrypointInfos[i].name = entrypointInfos[j].name => i = j

\* C1 (amended): after 'entrypoints:found' the list handed to the host starts
\* with the host's own entries and holds, for every name, the host's entries
\* of that name, every collected non-background layer entrypoint of that
\* name and the virtual background if one was added: entries of equal names
\* are all handed over, and setup has run to its end on no fatal path.
C1_EveryDeclarationHandedOver ==
  events.found > 0 =>
    /\ pc = "done"
    /\ SubSeq(entrypointInfos, 1, Len(hostEntrypoints)) = hostEntrypoints
    /\ \A name \in namesOf(entrypointInfos) \cup namesOf(hostEntrypoints)
                     \cup {allEntrypoints[i].info.name : i \in 1..Len(allEntrypoints)} :
         countNamed(entrypointInfos, name) =
           countNamed(hostEntrypoints, name) + Cardinality(collectedNamed(name))
             + Cardinality(virtualNamed(name))

\* two layers declared the same name, and both entries were handed over
C1_Witness ==
  /\ events.found > 0
  /\ \E i, j \in (Len(hostEntrypoints) + 1)..Len(entrypointInfos) :
       /\ i < j
       /\ entrypointInfos[i].name = entrypointInfos[j].name
       /\ entrypointInfos[i].inputPath # entrypointInfos[j].inputPath

\* ------------------------------------------------------------------------
\* C2
\* ------------------------------------------------------------------------

\* the first value of a list that is set, None when none is
firstSet(values) ==
  IF \A i \in 1..Len(values) : values[i] = None THEN None
  ELSE values[Min({i \in 1..Len(values) : values[i] # None})]

\* the options a layer's own config file sets
ownConfigOf(layer) ==
  IF lookup(fs, layer.path).config = None THEN NoOptions
  ELSE lookup(fs, layer.path).config[1].common

\* the options of the source that produced a layer
sourceConfigOf(layer) ==
  layerSources[CHOOSE j \in 1..Len(layerSources) :
                 layerSources[j].source = layer.source].common

discoveryOf(import) ==
  CHOOSE i \in 1..Len(allEntrypoints) :
    allEntrypoints[i].info.inputPath = import.inputPath

\* the positions of the trace at which a handler is called
callsOf(trace) == {p \in 1..Len(trace) : trace[p].event = "call"}

\* C5: the virtual background imports every collected layer background, its
\* handlers are called in the order of the imports, and that order is
\* ascending in the layers' order, layers of equal order in the order of
\* their discovery.
C5_AscendingOrder ==
  vm.status \in {"loaded", "running", "awaiting", "rejected", "finished"} =>
    /\ {vm.imports[i].inputPath : i \in 1..Len(vm.imports)}
         = {allEntrypoints[i].info.inputPath :
              i \in {k \in 1..Len(allEntrypoints) : allEntrypoints[k].info.type = "background"}}
    /\ \A i, j \in 1..Len(vm.imports) :
         i < j =>
           \/ allEntrypoints[discoveryOf(vm.imports[i])].order
                < allEntrypoints[discoveryOf(vm.imports[j])].order
           \/ /\ allEntrypoints[discoveryOf(vm.imports[i])].order
                   = allEntrypoints[discoveryOf(vm.imports[j])].order
              /\ discoveryOf(vm.imports[i]) < discoveryOf(vm.imports[j])
    /\ \A p \in callsOf(vm.trace) :
         vm.trace[p].index = Cardinality({q \in callsOf(vm.trace) : q <= p})

\* layers discovered with orders 10, 5, 20 have run as 5, 10, 20
C5_Witness ==
  /\ vm.status = "finished"
  /\ Len(vm.imports) = 3
  /\ LET discovered == SelectSeq(allEntrypoints, LAMBDA e : e.info.type = "background")
     IN [i \in 1..Len(discovered) |-> discovered[i].order] = <<10, 5, 20>>
  /\ [i \in 1..3 |-> allEntrypoints[discoveryOf(vm.imports[i])].order] = <<5, 10, 20>>
  /\ Cardinality(callsOf(vm.trace)) = 3

\* ------------------------------------------------------------------------
\* C6
\* ------------------------------------------------------------------------

\* C6: in runAll a handler is called only when the handler before it is
\* done (returned, or its promise resolved), with the value that handler
\* returned or resolved to as its argument; the first handler is called
\* first, with undefined; while a promise is pending no handler is called.
C6_SequentialWithPreviousResult ==
  /\ \A p \in callsOf(vm.trace) :
       IF vm.trace[p].index = 1
       THEN p = 1 /\ vm.trace[p].value = None
       ELSE /\ p > 1
            /\ vm.trace[p - 1].event = "done"
            /\ vm.trace[p - 1].index = vm.trace[p].index - 1
            /\ vm.trace[p].value = vm.trace[p - 1].value
  /\ vm.status = "awaiting" =>
       Last(vm.trace).event = "call" /\ Last(vm.trace).index = vm.next

\* the third handler is pending after it was called with what the first two
\* handlers made
C6_Witness ==
  /\ vm.status = "awaiting"
  /\ vm.next = 3
  /\ Last(vm.trace).value = Some(<<vm.imports[1].handler, vm.imports[2].handler>>)

\* ------------------------------------------------------------------------
\* C7
\* ------------------------------------------------------------------------

layerBackgroundPaths ==
  {allEntrypoints[i].info.inputPath :
     i \in {k \in 1..Len(allEntrypoints) : allEntrypoints[k].info.type = "background"}}

isUnder(path, dir) == Len(path) > Len(dir) /\ SubSeq(path, 1, Len(dir)) = dir

\* the files the explicit map of a layer points at
declaredPaths(layer) ==
  {resolve(layer.path, layer.options.entrypoints[1][k].path) :
     k \in {n \in 1..Len(layer.options.entrypoints[1]) :
              layer.options.entrypoints[1][n].path # <<>>}}

\* C8: of a layer whose effective options hold an explicit entrypoints map,
\* every collected entrypoint is a file the map points at, and none is a
\* file or folder of the layer's entrypoints/ directory.
C8_ExplicitMapReplacesScan ==
  pc = "done" =>
    \A i \in 1..Len(resolvedLayers) :
      resolvedLayers[i].options.entrypoints # None =>
        \A e \in 1..Len(allEntrypoints) :
          isUnder(allEntrypoints[e].info.inputPath, resolvedLayers[i].path) =>
            /\ allEntrypoints[e].info.inputPath \in declaredPaths(resolvedLayers[i])
            /\ ~isUnder(allEntrypoints[e].info.inputPath,
                        join(resolvedLayers[i].path, Seg("entrypoints")))

\* a layer with an explicit map and a populated entrypoints/ folder has
\* contributed entrypoints
C8_Witness ==
  /\ pc = "done"
  /\ \E i \in 1..Len(resolvedLayers) :
       /\ resolvedLayers[i].options.entrypoints # None
       /\ scanLayerEntrypoints(fs, resolvedLayers[i].path) # <<>>
       /\ \E e \in 1..Len(allEntrypoints) :
            isUnder(allEntrypoints[e].info.inputPath, resolvedLayers[i].path)

\* ------------------------------------------------------------------------
\* C9
\* ------------------------------------------------------------------------

\* the host's own alias table is empty or holds '@'
HostCameWithoutAliases == S("@") \notin DOMAIN alias

\* sources ['layers/*'], the single layer layers/demo with popup.html and
\* background.ts, no option set anywhere
DemoScenario ==
  /\ fs = Dir(<<Entry(S("r"), Project(<<Entry(S("demo"), Dir(<<DemoEntrypoints>>))>>))>>)
  /\ options = ModuleOptions(Some(<<SourceString(Pattern("layers", STAR))>>), None, None,
                             NoOptions)
  /\ HostCameWithoutAliases

DemoLayerPath == Abs(<<S("r"), S("layers"), S("demo")>>)

\* two entrypoints, no auto-import directory, no public asset
DemoAggregate ==
  /\ Len(allEntrypoints) = 2
  /\ {<<allEntrypoints[i].info.name, allEntrypoints[i].info.type>> : i \in 1..2}
       = {<<S("popup"), "popup">>, <<S("background"), "background">>}
  /\ allAutoImportPaths = <<>>
  /\ imports.dirs = <<>>
  /\ hooks.publicAssets = <<>>
  /\ assets = <<>>

\* C9 (as written): the demo project yields two entrypoints (popup,
\* background), exactly one alias, #demo for the path of layers/demo, no
\* auto-import directory and no public asset.
C9_DemoHasOneAlias ==
  (pc = "done" /\ DemoScenario) =>
    /\ DemoAggregate
    /\ alias = (<<"#", "demo">> :> DemoLayerPath)

\* C9 (amended): the demo project yields two entrypoints (popup,
\* background), exactly two aliases, #layers for the path of the source
\* folder layers and #demo for the path of layers/demo, no auto-import
\* directory and no public asset.
C9_DemoHasSourceAndLayerAlias ==
  (pc = "done" /\ DemoScenario) =>
    /\ DemoAggregate
    /\ alias = (<<"#", "layers">> :> Abs(<<S("r"), S("layers")>>))
                 @@ (<<"#", "demo">> :> DemoLayerPath)

\* the demo project after setup and after the host's events
C9_Witness ==
  /\ pc = "done"
  /\ DemoScenario
  /\ events.publicAssets > 0
  /\ events.configResolved > 0
  /\ events.found > 0

\* ------------------------------------------------------------------------
\* C10
\* ------------------------------------------------------------------------

\* name is key up to its first '.'
isKeyUpToFirstDot(name, key) ==
  /\ DOT \notin Range(name)
  /\ Len(name) <= Len(key)
  /\ SubSeq(key, 1, Len(name)) = name
  /\ Len(name) < Len(key) => key[Len(name) + 1] = DOT

\* the collected entrypoints of the layers with an explicit map, each with
\* the keys of the map that point at its file
explicitEntries ==
  {<<e, i>> \in (1..Len(allEntrypoints)) \X (1..Len(resolvedLayers)) :
     /\ resolvedLayers[i].options.entrypoints # None
     /\ isUnder(allEntrypoints[e].info.inputPath, resolvedLayers[i].path)}

keysOf(e, i) ==
  {resolvedLayers[i].options.entrypoints[1][k].key :
     k \in {n \in 1..Len(resolvedLayers[i].options.entrypoints[1]) :
              /\ resolvedLayers[i].options.entrypoints[1][n].path # <<>>
              /\ resolve(resolvedLayers[i].path, resolvedLayers[i].options.entrypoints[1][n].path)
                   = allEntrypoints[e].info.inputPath}}

\* C10 (as written): an entrypoint resolved from an explicit map is named by
\* its key verbatim, any dot-qualified part included.
C10_NameIsKeyVerbatim ==
  pc = "done" =>
    \A pair \in explicitEntries :
      allEntrypoints[pair[1]].info.name \in keysOf(pair[1], pair[2])

\* C10 (amended): an entrypoint resolved from an explicit map is named by
\* the part of its key before the first '.' (key 'linkedin.content' yields
\* the name 'linkedin').
C10_NameIsKeyUpToFirstDot ==
  pc = "done" =>
    \A pair \in explicitEntries :
      \E key \in keysOf(pair[1], pair[2]) :
        isKeyUpToFirstDot(allEntrypoints[pair[1]].info.name, key)

\* the key 'linkedin.content' has produced a content script named 'linkedin'
C10_Witness ==
  /\ pc = "done"
  /\ \E pair \in explicitEntries :
       /\ keysOf(pair[1], pair[2]) = {<<"linkedin", DOT, "content">>}
       /\ allEntrypoints[pair[1]].info.name = S("linkedin")
       /\ allEntrypoints[pair[1]].info.type = "content-script"

\* ------------------------------------------------------------------------
\* C11
\* ------------------------------------------------------------------------

\* the keys of a collected explicit entrypoint that hold a '.'
qualifiedKeysOf(e, i) == {key \in keysOf(e, i) : DOT \in Range(key)}

RECURSIVE keep(_, _, _)
keep(seq, chosen, i) ==
  IF i > Len(seq) THEN <<>>
  ELSE (IF i \in chosen THEN <<seq[i]>> ELSE <<>>) \o keep(seq, chosen, i + 1)

selections(seq) == {keep(seq, chosen, 1) : chosen \in SUBSET (1..Len(seq))}

\* what an entrypoints folder may hold: files (one hidden, one without an
\* extension), a folder with an index file, a folder without one, a folder
\* with several
EntrypointCandidates ==
  <<Entry(<<DOT, "gitkeep">>, File),
    Entry(S("LICENSE"), File),
    Entry(FileName("background", "ts"), File),
    Entry(S("drafts"), Dir(<<Entry(FileName("notes", "md"), File)>>)),
    Entry(QualifiedFileName("linkedin", "content", "ts"), File),
    Entry(S("popup"), Dir(<<Entry(FileName("index", "html"), File)>>)),
    Entry(FileName("popup", "html"), File),
    Entry(FileName("styles", "scss"), File),
    Entry(S("widget"), Dir(<<Entry(FileName("index", "styl"), File),
                             Entry(FileName("index", "ts"), File),
                             Entry(FileName("index", "html"), File)>>))>>

\* what an explicit map may hold
MapCandidates ==
  <<MapEntry(S("background"), RelPath(S("bg"), FileName("main", "ts"))),
    MapEntry(<<"linkedin", DOT, "content">>, RelPath(S("content"), FileName("linkedin", "ts"))),
    MapEntry(<<"linkedin", DOT, "sidepanel">>, RelPath(S("panel"), FileName("index", "html"))),
    MapEntry(S("missing"), RelPath(S("content"), FileName("nope", "ts"))),
    MapEntry(S("unset"), <<>>)>>

\* /r/layers with the layer 'one' (an entrypoints folder and the files of an
\* explicit map), a plain file, and the layer 'two' without entrypoints
ResolverTree(content) ==
  Dir(<<Entry(S("r"), Dir(<<
    Entry(S("layers"), Dir(<<
      Entry(S("one"), Dir(<<Entry(S("entrypoints"), Dir(content))>> \o ExplicitFiles)),
      Entry(FileName("README", "md"), File),
      Entry(S("two"), Dir(<<Entry(S("deep"), Dir(<<>>))>>))>>))>>))>>)

ResolverLayers == {Abs(<<S("r"), S("layers"), S(name)>>) : name \in {"one", "two"}}

\* sources as resolveSources leaves them: absolute, with or without '/*'
ResolverSources ==
  { Abs(Pattern("r", "layers") \o <<S(STAR)>>),
    Abs(Pattern("r", "missing") \o <<S(STAR)>>),
    Abs(Pattern("r", "layers") \o Pattern("one", STAR)),
    Abs(Pattern("r", "layers") \o Pattern("two", STAR)),
    Abs(Pattern("r", "layers") \o Pattern("one", "content") \o <<S(STAR)>>),
    Abs(Pattern("r", "layers") \o Pattern("one", "entrypoints") \o <<S(STAR)>>),
    Abs(Pattern("r", "layers") \o <<S("one")>>),
    Abs(Pattern("r", "layers") \o <<FileName("README", "md")>>),
    Abs(Pattern("r", "layers") \o <<S("none")>>),
    Abs(Pattern("r", "missing") \o <<S("one")>>) }

InitResolver ==
  /\ fs \in {ResolverTree(content) : content \in selections(EntrypointCandidates)}
  /\ options = ModuleOptions(None, None, None, NoOptions)
  /\ imports = [disabled |-> FALSE, dirs |-> <<>>]
  /\ alias = <<>>
  /\ Fresh

ScanCall(layerPath) ==
  /\ probe.op = "none"
  /\ probe' = [op |-> "scanLayerEntrypoints", layerPath |-> layerPath,
               result |-> scanLayerEntrypoints(fs, layerPath)]
  /\ UNCHANGED <<fs, options, pc, alias, log, layerSources, resolvedLayers, allEntrypoints,
                 allAutoImportPaths, hooks, hostEntrypoints, entrypointInfos, events,
                 imports, assets, notifications, plugins, vm>>

ResolveCall(config, layerPath) ==
  /\ probe.op = "none"
  /\ probe' = [op |-> "resolveEntrypoints", config |-> config, layerPath |-> layerPath,
               result |-> resolveEntrypoints(fs, config, layerPath)]
  /\ UNCHANGED <<fs, options, pc, alias, log, layerSources, resolvedLayers, allEntrypoints,
                 allAutoImportPaths, hooks, hostEntrypoints, entrypointInfos, events,
                 imports, assets, notifications, plugins, vm>>

GetLayerPathsCall(source) ==
  /\ probe.op = "none"
  /\ probe' = [op |-> "getLayerPaths", source |-> source,
               result |-> getLayerPaths(fs, [source |-> source])]
  /\ UNCHANGED <<fs, options, pc, alias, log, layerSources, resolvedLayers, allEntrypoints,
                 allAutoImportPaths, hooks, hostEntrypoints, entrypointInfos, events,
                 imports, assets, notifications, plugins, vm>>

NextResolver ==
  \/ \E layerPath \in ResolverLayers : ScanCall(layerPath)
  \/ \E config \in selections(MapCandidates), layerPath \in ResolverLayers :
       ResolveCall(config, layerPath)
  \/ \E source \in ResolverSources : GetLayerPathsCall(source)

SpecResolver == InitResolver /\ [][NextResolver]_vars

\* ------------------------------------------------------------------------
\* C12
\* ------------------------------------------------------------------------

\* a file name without its last extension; a leading '.' starts no extension
withoutLastExtension(name) ==
  LET dots == {i \in 2..Len(name) : name[i] = DOT}
  IN IF dots = {} THEN name
     ELSE SubSeq(name, 1, (CHOOSE i \in dots : \A j \in dots : j <= i) - 1)

namesRepeat(result) ==
  \E i \in 1..Len(result), j \in 1..Len(result) : i < j /\ result[i].name = result[j].name

\* the children of the folder at a path, <<>> for anything else
childrenAt(path) == lookup(fs, path).children

\* a directory entry yields an entrypoint when it is a file, or a folder
\* holding an index file
yieldsEntrypoint(e) ==
  \/ e.node.kind = "file"
  \/ e.node.kind = "dir" /\ \E c \in Range(e.node.children) : isIndexFile(c.name)

\* a map entry yields an entrypoint when its path is set and exists
resolvesToFile(layerPath, e) ==
  e.path # <<>> /\ lookup(fs, layerPath \o e.path) # NoNode

\* C12 (as written): the list returned by one call of the resolver for one
\* layer never holds two entries with the same name.
C12_NamesUniquePerCall ==
  probe.op \in {"scanLayerEntrypoints", "resolveEntrypoints"} => ~namesRepeat(probe.result)

\* C12 (amended): one call returns one entry for every directory entry that
\* is a file or a folder with an index file (scan mode) and one for every key
\* whose path is set and exists (explicit mode), in the order of the folder or
\* of the map, named by the entry without its extension, or by the key up to
\* its first '.'; the input paths of one scan differ pairwise, but names are
\* not made unique.
C12_OneEntryPerSource ==
  /\ probe.op = "scanLayerEntrypoints" =>
       LET found == SelectSeq(childrenAt(probe.layerPath \o Seg("entrypoints")),
                              yieldsEntrypoint)
       IN /\ Len(probe.result) = Len(found)
          /\ \A i \in 1..Len(found) :
               probe.result[i].name =
                 IF found[i].node.kind = "dir" THEN found[i].name
                 ELSE withoutLastExtension(found[i].name)
          /\ \A i \in 1..Len(found), j \in 1..Len(found) :
               i # j => probe.result[i].inputPath # probe.result[j].inputPath
  /\ probe.op = "resolveEntrypoints" =>
       LET found == SelectSeq(probe.config, LAMBDA e : resolvesToFile(probe.layerPath, e))
       IN /\ Len(probe.result) = Len(found)
          /\ \A i \in 1..Len(found) :
               /\ isKeyUpToFirstDot(probe.result[i].name, found[i].key)
               /\ probe.result[i].inputPath = probe.layerPath \o found[i].path

\* a scan has returned the file popup.html and the folder popup under one
\* name, and a map with 'linkedin.content' and 'linkedin.sidepanel' would
\* return two entries named linkedin
C12_Witness ==
  /\ probe.op = "scanLayerEntrypoints"
  /\ namesRepeat(probe.result)
  /\ \E i \in 1..Len(probe.result) : probe.result[i].name = S("popup")
  /\ namesRepeat(resolveEntrypoints(fs, MapCandidates, probe.layerPath))

\* ------------------------------------------------------------------------
\* C13
\* ------------------------------------------------------------------------

\* the paths of the child folders of the folder at a path
childFolders(parent) ==
  {parent \o <<e.name>> : e \in {c \in Range(childrenAt(parent)) : c.node.kind = "dir"}}

nothingContributed ==
  /\ \E i \in 1..Len(log) : log[i] = LogEntry("warn", "No layers found!", <<>>)
  /\ resolvedLayers = <<>>
  /\ allEntrypoints = <<>>
  /\ allAutoImportPaths = <<>>
  /\ imports.dirs = <<>>
  /\ hooks = NoHooks
  /\ assets = <<>>
  /\ notifications = <<>>

\* the entries of the alias table that one of the host's own tables holds
hostOwnAlias(key) == \E table \in HostAliases : key \in DOMAIN table /\ table[key] = alias[key]

\* the entry of the alias table under a key is the alias of a source
sourceAliasAt(key) ==
  \E i \in 1..Len(layerSources) :
    /\ layerSources[i].sourceAlias \notin {None, Some(<<>>)}
    /\ alias[key] = removeFirstWildcard(layerSources[i].source)
    /\ key = interpolateLayerName(layerSources[i].sourceAlias[1], basename(alias[key]))

\* C14 (as written): when every source expands to zero layers the pass warns
\* and leaves an empty aggregate, no alias registered included.
C14_NothingRegistered ==
  pc = "no layers" => nothingContributed /\ alias \in HostAliases

\* C14 (amended): when every source expands to zero layers the pass warns,
\* contributes no entrypoint, no auto-import directory, no public-asset hook
\* and no 'layers:resolved' notification, and registers no layer alias; the
\* aliases of the sources are registered all the same, since they are set
\* before the layers are looked for.
C14_OnlySourceAliasesRegistered ==
  pc = "no layers" =>
    /\ nothingContributed
    /\ \A key \in DOMAIN alias : hostOwnAlias(key) \/ sourceAliasAt(key)
    /\ \A i \in 1..Len(layerSources) :
         layerSources[i].sourceAlias \notin {None, Some(<<>>)} =>
           aliasDefined(alias, interpolateLayerName(
                                 layerSources[i].sourceAlias[1],
                                 basename(removeFirstWildcard(layerSources[i].source))))

\* a pass over an empty layers folder has registered '#layers' and nothing
\* else
C14_Witness ==
  /\ pc = "no layers"
  /\ DOMAIN alias = {<<"#", "layers">>}
  /\ alias[<<"#", "layers">>] = Abs(<<S("r"), S("layers")>>)

\* ------------------------------------------------------------------------
\* C15
\* ------------------------------------------------------------------------

\* the order the documentation gives a layer without one (types.ts,
\* LayerOptions.order: "default: 50")
DocumentedDefaultOrder == 50

\* the order set in the configuration of the layer of an import, None
\* without one
configuredOrderOf(import) ==
  LET layer == CHOOSE l \in Range(resolvedLayers) : isUnder(import.inputPath, l.path)
  IN loadLayerConfig(fs, layer.path).order

\* the positions of the imports of the generated module
importPositions == 1..Len(vm.imports)

\* C15: the background handler of a layer without an `order` runs before
\* that of every layer with an explicit order above 50 and after that of
\* every layer with an explicit order below 50.
C15_UnsetOrderIsFifty ==
  vm.status # "none" =>
    \A i \in importPositions, j \in importPositions :
      (configuredOrderOf(vm.imports[i]) = None /\ configuredOrderOf(vm.imports[j]) # None) =>
        /\ configuredOrderOf(vm.imports[j])[1] > DocumentedDefaultOrder => i < j
        /\ configuredOrderOf(vm.imports[j])[1] < DocumentedDefaultOrder => j < i

\* ------------------------------------------------------------------------
\* C16
\* ------------------------------------------------------------------------

\* the layer an asset was copied from
layerOfAsset(asset) ==
  CHOOSE l \in Range(resolvedLayers) : isUnder(asset.absoluteSrc, l.path)

\* neither the layer's config, nor its source, nor the module sets a
\* publicPrefix
publicPrefixUnset(layer) ==
  /\ ownConfigOf(layer).publicPrefix = None
  /\ sourceConfigOf(layer).publicPrefix = None
  /\ options.common.publicPrefix = None

\* the assets of the layers that get the default prefix
defaultPrefixed == {a \in Range(assets) : publicPrefixUnset(layerOfAsset(a))}

\* the path of an asset below the public folder of its layer
fileOfAsset(asset) ==
  SubSeq(asset.absoluteSrc, Len(layerOfAsset(asset).path) + 2, Len(asset.absoluteSrc))

\* every asset of a layer without a publicPrefix goes to '<layer-name>/f'
destinationIsNameThenFile ==
  \A a \in defaultPrefixed :
    a.relativeDest = <<basename(layerOfAsset(a).path)>> \o fileOfAsset(a)

\* C16 (as written): with no publicPrefix set at any level every public file
\* f of a layer goes to '<layer-name>/f', so the public files of different
\* layers never share a destination.
C16_DifferentLayersDifferentDestinations ==
  events.publicAssets > 0 =>
    /\ destinationIsNameThenFile
    /\ \A a \in defaultPrefixed, b \in defaultPrefixed :
         layerOfAsset(a).path # layerOfAsset(b).path => a.relativeDest # b.relativeDest

\* C16 (amended): with no publicPrefix set at any level every public file f
\* of a layer goes to '<layer-name>/f', so the public files of layers with
\* different names never share a destination; two layers of the same name in
\* different sources send equally named files to one destination.
C16_DifferentNamesDifferentDestinations ==
  events.publicAssets > 0 =>
    /\ destinationIsNameThenFile
    /\ \A a \in defaultPrefixed, b \in defaultPrefixed :
         (a.relativeDest = b.relativeDest) <=>
           /\ basename(layerOfAsset(a).path) = basename(layerOfAsset(b).path)
           /\ fileOfAsset(a) = fileOfAsset(b)

\* the public files of layers/layers, layers/shop and features/shop have been
\* collected with the default prefix: different names, different destinations;
\* the two layers named shop, one destination
C16_Witness ==
  /\ events.publicAssets > 0
  /\ \E a \in defaultPrefixed, b \in defaultPrefixed :
       /\ basename(layerOfAsset(a).path) # basename(layerOfAsset(b).path)
       /\ fileOfAsset(a) = fileOfAsset(b)
       /\ a.relativeDest # b.relativeDest
  /\ \E a \in defaultPrefixed, b \in defaultPrefixed :
       /\ layerOfAsset(a).path # layerOfAsset(b).path
       /\ a.relativeDest = b.relativeDest

\* ------------------------------------------------------------------------
\* C17
\* ------------------------------------------------------------------------

\* the configured sources that set no sourceAlias of their own, by position
sourcesWithoutOwnAlias ==
  IF options.sources = None THEN {}
  ELSE {i \in 1..Len(options.sources[1]) : options.sources[1][i].sourceAlias = None}

\* the folder a source alias points at
sourceFolder(i) == removeFirstWildcard(layerSources[i].source)

\* C17: the module's sourceAlias is the alias template of every source
\* without a sourceAlias of its own: with '@{name}' and the bare source
\* 'features/*' the alias '@features' is registered, with '' no source alias
\* is registered.
C17_ModuleSourceAliasIsDefault ==
  (pc \in {"done", "no layers"} /\ options.sourceAlias # None) =>
    \A i \in sourcesWithoutOwnAlias :
      IF options.sourceAlias = Some(<<>>)
      THEN \A key \in DOMAIN alias : alias[key] # sourceFolder(i)
      ELSE LET key == interpolateLayerName(options.sourceAlias[1], basename(sourceFolder(i)))
           IN aliasDefined(alias, key) /\ alias[key] = sourceFolder(i)

\* ------------------------------------------------------------------------
\* C18
\* ------------------------------------------------------------------------

\* the hooks through which the plugin of the virtual module reaches the
\* build and the dev server hold a registration
pluginHooksRegistered ==
  hooks.viteBuildExtendConfig # <<>> /\ hooks.viteDevServerExtendConfig # <<>>

\* C18: when the host has a background of its own and a layer has one, the
\* plugin that serves the virtual module 'wxt-module-layers:background' is
\* registered all the same, so that the host's background can import it.
C18_PluginRegisteredBesideHostBackground ==
  (events.found > 0 /\ hasBackground(hostEntrypoints) /\ layerBackgroundPaths # {})
    => pluginHooksRegistered

\* ------------------------------------------------------------------------
\* C19
\* ------------------------------------------------------------------------

\* a sequence without its repetitions, in first-insertion order
RECURSIVE firstInsertions(_)
firstInsertions(seq) ==
  IF seq = <<>> THEN <<>>
  ELSE LET front == firstInsertions(Front(seq))
       IN IF Last(seq) \in Range(front) THEN front ELSE Append(front, Last(seq))

\* C19: after 'config:resolved' the host's auto-import directory list holds
\* every collected layer directory once, in first-insertion order, as an
\* absolute path.
C19_ImportDirsOnceAndAbsolute ==
  events.configResolved > 0 =>
    /\ \A i \in 1..Len(imports.dirs), j \in 1..Len(imports.dirs) :
         i # j => imports.dirs[i] # imports.dirs[j]
    /\ \A i \in 1..Len(imports.dirs) : isAbsolute(imports.dirs[i])
    /\ imports.dirs = firstInsertions(allAutoImportPaths)

\* ------------------------------------------------------------------------
\* C20
\* ------------------------------------------------------------------------

\* the key of the call of setAlias a step has made, <<>> when the call gave
\* no template
attemptedKey(call) ==
  IF call.template \in {None, Some(<<>>)} THEN <<>>
  ELSE interpolateLayerName(call.template[1], basename(call.path))

\* the step is a call of setAlias that was dropped because its key was taken
droppedAttempt ==
  /\ probe'.op = "setAlias"
  /\ attemptedKey(probe') # <<>>
  /\ aliasDefined(alias, attemptedKey(probe'))

\* C20 (as written): every dropped registration emits a message that the
\* logger shows at the default verbosity.
C20_CollisionVisibleByDefault ==
  [][droppedAttempt =>
       /\ Len(log') = Len(log) + 1
       /\ Last(log').text = "alias already defined"
       /\ visibleAt(Last(log').level, options.logLevel)]_vars

\* C20 (amended): every dropped registration leaves the table as it was and
\* emits one message naming the key, at debug level: the logger shows it when
\* logLevel is 'debug', and not at the default verbosity 'info'.
C20_CollisionLoggedAtDebug ==
  [][droppedAttempt =>
       /\ alias' = alias
       /\ log' = Append(log, LogEntry("debug", "alias already defined",
                                      attemptedKey(probe')))
       /\ visibleAt(Last(log').level, Some("debug"))
       /\ ~visibleAt(Last(log').level, options.logLevel)]_vars

\* two attempts on keys that were taken have been dropped, each with its
\* message, and the options set no logLevel
C20_Witness ==
  /\ options.logLevel = None
  /\ probe.op = "setAlias"
  /\ Cardinality({i \in 1..Len(log) : log[i].text = "alias already defined"}) = 2
  /\ Last(log).text = "alias already defined"

\* ------------------------------------------------------------------------
\* C21
\* ------------------------------------------------------------------------

\* the entries of a map whose path is set and names nothing in the layer
danglingEntries(config, layerPath) ==
  {i \in 1..Len(config) :
     config[i].path # <<>> /\ lookup(fs, layerPath \o config[i].path) = NoNode}

\* a map without its dangling entries
RECURSIVE withoutDangling(_, _)
withoutDangling(config, layerPath) ==
  IF config = <<>> THEN <<>>
  ELSE withoutDangling(Front(config), layerPath)
       \o (IF Len(config) \in danglingEntries(config, layerPath)
           THEN <<>> ELSE <<Last(config)>>)

\* C21: a map entry whose path does not exist under the layer produces no
\* entrypoint, and the entrypoints of the other keys are those the map
\* without that entry produces.
C21_MissingPathSkipped ==
  probe.op = "resolveEntrypoints" =>
    /\ \A i \in danglingEntries(probe.config, probe.layerPath) :
         \A k \in 1..Len(probe.result) :
           probe.result[k].inputPath # probe.layerPath \o probe.config[i].path
    /\ probe.result =
         resolveEntrypoints(fs, withoutDangling(probe.config, probe.layerPath),
                            probe.layerPath)
    /\ Len(probe.result) <= Len(probe.config) - Cardinality(danglingEntries(probe.config,
                                                                         probe.layerPath))

\* a map with a dangling entry behind three entries that exist has been
\* resolved to the entrypoints of those three
C21_Witness ==
  /\ probe.op = "resolveEntrypoints"
  /\ danglingEntries(probe.config, probe.layerPath) = {4}
  /\ Len(probe.result) = 3

\* ------------------------------------------------------------------------
\* C22
\* ------------------------------------------------------------------------

\* what the hook has put behind the host's own entries, the virtual
\* background left out
appendedByLayers ==
  SelectSeq(SubSeq(entrypointInfos, Len(hostEntrypoints) + 1, Len(entrypointInfos)),
            LAMBDA e : e # VirtualBackground)

\* the collected entrypoints that are no background, in collection order
collectedOthers == SelectSeq(allEntrypoints, LAMBDA e : e.info.type # "background")

\* the position among the resolved layers of the layer of a collected entry
layerPositionOf(e) ==
  CHOOSE k \in 1..Len(resolvedLayers) : isUnder(e.info.inputPath, resolvedLayers[k].path)

\* C22: 'entrypoints:found' appends every collected entrypoint that is no
\* background once, in collection order (the order of the layers, then the
\* order of discovery in the layer) whatever the layers' `order` values are,
\* and appends no collected background under its own input path.
C22_OthersAppendedInCollectionOrder ==
  events.found > 0 =>
    /\ Len(appendedByLayers) = Len(collectedOthers)
    /\ \A i \in 1..Len(collectedOthers) : appendedByLayers[i] = collectedOthers[i].info
    /\ \A i \in 1..Len(allEntrypoints), j \in 1..Len(allEntrypoints) :
         i < j => layerPositionOf(allEntrypoints[i]) <= layerPositionOf(allEntrypoints[j])
    /\ \A i \in 1..Len(entrypointInfos) :
         entrypointInfos[i].inputPath \in layerBackgroundPaths =>
           i <= Len(hostEntrypoints)

\* entrypoints of a layer of a higher order were appended in front of those
\* of a layer of a lower order, next to a background that was held back
C22_Witness ==
  /\ events.found > 0
  /\ layerBackgroundPaths # {}
  /\ \E i \in 1..Len(collectedOthers), j \in 1..Len(collectedOthers) :
       /\ i < j
       /\ collectedOthers[i].order > collectedOthers[j].order
       /\ appendedByLayers[i] = collectedOthers[i].info
       /\ appendedByLayers[j] = collectedOthers[j].info

\* ------------------------------------------------------------------------
\* C23
\* ------------------------------------------------------------------------

PageKinds == ListedPages \cup {"sidepanel", "sandbox", "unlisted-page"}

ScriptKinds == {"background", "content-script", "unlisted-script"}

RecognizedIndexFiles ==
  {FileName("index", ext) :
     ext \in {"ts", "tsx", "js", "jsx", "html", "css", "scss", "sass", "less"}}

\* the recognized index files of a folder, in the order of the folder
indexFilesOf(node) == SelectSeq(node.children, LAMBDA c : c.name \in RecognizedIndexFiles)

\* the entries a scan has returned for a path or anything below it
returnedFor(path) ==
  {k \in 1..Len(probe.result) :
     probe.result[k].inputPath = path \/ isUnder(probe.result[k].inputPath, path)}

\* C24: a scan returns for a folder of the entrypoints folder one
\* entrypoint, named after the folder and pointing at its index file, when the
\* folder holds a file index.<recognized extension>, and none when it holds
\* none; for a plain file it returns one entrypoint named by the file name
\* minus its last extension.
C24_ScanFoldersAndFiles ==
  probe.op = "scanLayerEntrypoints" =>
    LET entrypointsDir == probe.layerPath \o Seg("entrypoints")
    IN \A c \in Range(childrenAt(entrypointsDir)) :
         LET path == entrypointsDir \o <<c.name>>
         IN IF c.node.kind = "dir"
            THEN IF indexFilesOf(c.node) = <<>>
                 THEN returnedFor(path) = {}
                 ELSE /\ Cardinality(returnedFor(path)) = 1
                      /\ \A k \in returnedFor(path) :
                           /\ probe.result[k].name = c.name
                           /\ probe.result[k].inputPath
                                = path \o <<Head(indexFilesOf(c.node)).name>>
            ELSE /\ Cardinality(returnedFor(path)) = 1
                 /\ \A k \in returnedFor(path) :
                      /\ probe.result[k].name = withoutLastExtension(c.name)
                      /\ probe.result[k].inputPath = path

\* a scan over a folder without an index file, a folder with several and a
\* file has returned the second under its own name with its first recognized
\* index file, and the file without its extension
C24_Witness ==
  /\ probe.op = "scanLayerEntrypoints"
  /\ \E c \in Range(childrenAt(probe.layerPath \o Seg("entrypoints"))) :
       c.node.kind = "dir" /\ indexFilesOf(c.node) = <<>>
  /\ \E k \in 1..Len(probe.result) :
       /\ probe.result[k].name = S("widget")
       /\ Last(probe.result[k].inputPath) = FileName("index", "ts")
  /\ \E k \in 1..Len(probe.result) :
       /\ probe.result[k].name = S("background")
       /\ Last(probe.result[k].inputPath) = FileName("background", "ts")

\* ------------------------------------------------------------------------
\* C25
\* ------------------------------------------------------------------------

\* C25: 'layers:resolved' is emitted only in a pass that found a layer, once
\* for every 'ready' event, after the layers were resolved, and carries the
\* absolute paths of all resolved layers in the order of their resolution.
C25_LayersResolvedNotification ==
  /\ Len(notifications) = events.ready
  /\ pc # "done" => notifications = <<>>
  /\ \A n \in 1..Len(notifications) :
       /\ resolvedLayers # <<>>
       /\ Len(notifications[n]) = Len(resolvedLayers)
       /\ \A i \in 1..Len(resolvedLayers) :
            /\ notifications[n][i] = resolvedLayers[i].path
            /\ isAbsolute(notifications[n][i])
            /\ lookup(fs, notifications[n][i]) # NoNode

\* two 'ready' events have each announced the layers of two sources
C25_Witness ==
  /\ events.ready = 2
  /\ Len(notifications) = 2
  /\ Len(notifications[2]) >= 3
  /\ \E i \in 1..Len(resolvedLayers), j \in 1..Len(resolvedLayers) :
       resolvedLayers[i].source # resolvedLayers[j].source

\* ------------------------------------------------------------------------
\* C26
\* ------------------------------------------------------------------------

\* the public folder of a layer
publicFolderOf(layer) == layer.path \o Seg("public")

\* the relative paths that name a file below a folder, up to two levels deep
relativeFilesBelow(folder) ==
  LET names == {c.name : c \in Range(childrenAt(folder))}
                 \cup UNION {{d.name : d \in Range(c.node.children)} :
                               c \in Range(childrenAt(folder))}
  IN {p \in {<<a>> : a \in names} \cup {<<a, b>> : a, b \in names} :
        lookup(fs, folder \o p).kind = "file"}

\* a template with every '{name}' replaced by a name
RECURSIVE withName(_, _)
withName(tokens, name) ==
  IF tokens = <<>> THEN <<>>
  ELSE withName(Front(tokens), name)
       \o (IF Last(tokens) = "{name}" THEN name ELSE <<Last(tokens)>>)

\* the destination folder of the public files of a layer
destinationOf(layer) ==
  LET template == IF layer.options.publicPrefix = None THEN <<>>
                  ELSE layer.options.publicPrefix[1]
  IN [i \in 1..Len(template) |-> withName(template[i], Last(layer.path))]

\* the assets a layer is to contribute at every 'build:publicAssets'
expectedAssetsOf(layer) ==
  {Asset(publicFolderOf(layer) \o f, destinationOf(layer) \o f) :
     f \in relativeFilesBelow(publicFolderOf(layer))}

Attempt(path, template) == [path |-> path, template |-> template]

\* the attempts of a pass: one for each source, then one for each layer
attemptsOfPass ==
  [i \in 1..Len(layerSources) |->
     Attempt(removeFirstWildcard(layerSources[i].source), layerSources[i].sourceAlias)]
  \o [i \in 1..Len(resolvedLayers) |->
        Attempt(resolvedLayers[i].path, resolvedLayers[i].options.layerAlias)]

\* the key of an attempt, <<>> for an attempt without a template
keyOfAttempt(a) ==
  IF a.template \in {None, Some(<<>>)} THEN <<>>
  ELSE withName(a.template[1], Last(a.path))

\* the attempts that have a key, in their order
keyedAttempts == SelectSeq(attemptsOfPass, LAMBDA a : keyOfAttempt(a) # <<>>)

\* the folder of the first of some attempts under a key
firstFolderUnder(keys, attempts, key) ==
  attempts[CHOOSE i \in 1..Len(keys) : keys[i] = key /\ \A j \in 1..(i - 1) : keys[j] # key].path

\* the messages of the log about aliases, in their order
aliasMessages ==
  SelectSeq(log, LAMBDA e : e.text \in {"alias", "alias already defined"})

\* C27: in one pass the alias attempts of all sources come before those of
\* the layers, which come in the order of the layers; a key keeps the folder
\* of the first attempt under it (the source's, when a source and a layer
\* contest it; the earlier layer's, among layers), unless the host came with
\* the key.
C27_SourcesBeforeLayers ==
  pc \in {"done", "no layers"} =>
    \A attempts \in {keyedAttempts}, messages \in {aliasMessages} :
      \A keys \in {[i \in 1..Len(attempts) |-> keyOfAttempt(attempts[i])]} :
        /\ Len(messages) = Len(attempts)
        /\ \A i \in 1..Len(attempts) : messages[i].subject = keys[i]
        /\ \A i \in 1..Len(attempts) :
             /\ keys[i] \in DOMAIN alias
             /\ ~hostOwnAlias(keys[i]) =>
                  alias[keys[i]] = firstFolderUnder(keys, attempts, keys[i])

\* the key '#layers' went to the source layers/* and not to the layer
\* layers/layers, and the key '#shop' to layers/shop and not to features/shop
C27_Witness ==
  /\ pc = "done"
  /\ \E i \in 1..Len(resolvedLayers) :
       /\ resolvedLayers[i].path = Abs(<<S("r"), S("layers"), S("layers")>>)
       /\ resolvedLayers[i].options.layerAlias = Some(<<"#", "{name}">>)
  /\ alias[<<"#", "layers">>] = Abs(<<S("r"), S("layers")>>)
  /\ \E i \in 1..Len(resolvedLayers) :
       /\ resolvedLayers[i].path = Abs(<<S("r"), S("features"), S("shop")>>)
       /\ resolvedLayers[i].options.layerAlias = Some(<<"#", "{name}">>)
  /\ alias[<<"#", "shop">>] = Abs(<<S("r"), S("layers"), S("shop")>>)

\* ------------------------------------------------------------------------
\* C28
\* ------------------------------------------------------------------------

\* the layer-backgrounds plugins in the plugin list of the bundler's config
layerBackgroundsPlugins ==
  {i \in 1..Len(plugins) : plugins[i].name = "wxt-module-layers-backgrounds"}

\* C28: after any number of 'entrypoints:found' events without a host
\* background and one config-extension event, the config holds exactly one
\* layer-backgrounds plugin.
C28_OnePluginPerConfig ==
  (plugins # <<>> /\ events.found >= 1 /\ ~hasBackground(hostEntrypoints)
     /\ layerBackgroundPaths # {})
    => Cardinality(layerBackgroundsPlugins) = 1

\* ------------------------------------------------------------------------
\* C29
\* ------------------------------------------------------------------------

\* C29: the identifiers under which the generated module imports the layer
\* background handlers are pairwise distinct.
C29_HandlerIdentifiersDistinct ==
  vm.status # "none" =>
    \A i \in importPositions, j \in importPositions :
      i # j => vm.imports[i].handler # vm.imports[j].handler

\* ------------------------------------------------------------------------
\* C30
\* ------------------------------------------------------------------------

\* the handlers the trace shows a call of
calledHandlers(trace) == {trace[p].index : p \in {q \in 1..Len(trace) : trace[q].event = "call"}}

\* the handler whose failure the trace ends with
failedHandler(trace) == Last(trace).index

\* C30: when a handler of the virtual background throws or its promise
\* rejects, runAll ends there: no later handler is ever called, main() has
\* returned true, and the failure was handed to nobody.
C30_FailureStopsTheChain ==
  [][/\ \A p \in 1..Len(vm'.trace) :
          vm'.trace[p].event = "throw" =>
            /\ p = Len(vm'.trace)
            /\ vm'.status = "rejected"
            /\ calledHandlers(vm'.trace) = 1..failedHandler(vm'.trace)
            /\ vm'.mainReturned
     /\ (vm' # vm /\ vm'.status = "rejected") =>
          Last(vm'.trace).event = "throw" /\ log' = log
     /\ vm.status = "rejected" => vm' = vm]_vars

\* the promise of the second of at least three handlers has rejected after
\* the first had finished
C30_Witness ==
  /\ vm.status = "rejected"
  /\ vm.mainReturned
  /\ Len(vm.imports) >= 3
  /\ failedHandler(vm.trace) = 2
  /\ \E p \in 1..Len(vm.trace) : vm.trace[p].event = "done" /\ vm.trace[p].index = 1
  /\ calledHandlers(vm.trace) = {1, 2}

====
